---------------------------- MODULE Spec2Model ----------------------------
(***************************************************************************)
(* Model of the epilepsy-safe brightness control engine of Epilyzer:       *)
(* core::epilepsy::EpilepsyGuard and the daemon's control loop.            *)
(*                                                                         *)
(* Number representation (f64 and Instant are not TLA+ values):            *)
(*   - a brightness is an integer number of hundredths of a percent        *)
(*     (Pct(2) = 200 stands for 2.0);                                      *)
(*   - a factor in [0,1] (easing progress, content multiplier, weather     *)
(*     factor, luminance) is an integer number of thousandths;             *)
(*   - an Instant is represented by its age: the milliseconds elapsed      *)
(*     since it was taken, saturated at the largest value the code ever    *)
(*     compares it with.                                                   *)
(***************************************************************************)
EXTENDS Integers, Sequences, FiniteSets, TLC

\* ------------------------------------------------------------------------
\* Small helpers (f64::min, f64::abs, f64::clamp, Option)

Min(a, b) == IF a < b THEN a ELSE b

Max(a, b) == IF a > b THEN a ELSE b

Abs(x) == IF x < 0 THEN -x ELSE x

clamp(v, lo, hi) == IF v < lo THEN lo ELSE IF v > hi THEN hi ELSE v

None == <<>>

Some(x) == <<x>>

IsSome(o) == o /= <<>>

Unwrap(o) == o[1]

\* x percent, in hundredths of a percent
Pct(x) == x * 100

\* the literal 0.1 of the dead-band and debounce tests
DEAD_BAND == Pct(1) \div 10

\* ------------------------------------------------------------------------
\* core/src/epilepsy.rs: constants

MAX_CHANGE_FREQUENCY_HZ == 3

MIN_SAFE_INTERVAL_MS == 1000 \div MAX_CHANGE_FREQUENCY_HZ

MAX_DELTA_PER_STEP == Pct(2)

MIN_DURATION_MS == 300

MAX_DURATION_MS == 2000

DEFAULT_DURATION_MS == 750

FORCED_DURATION_MS == 200

\* the grace period the control loop passes to is_in_grace_period
GRACE_MS == 1800 * 1000

Automatic == "Automatic"

EmergencyStop == "EmergencyStop"

SafetyMode == {Automatic, EmergencyStop}


\* ------------------------------------------------------------------------
\* core/src/epilepsy.rs: EpilepsyGuard
\*
\* A guard is a record with the fields of struct EpilepsyGuard.  The Instant
\* fields hold ages in milliseconds: last_change_time saturates at
\* MIN_SAFE_INTERVAL_MS, a transition's start_time at the transition's
\* duration, last_user_override at GRACE_MS.

EpilepsyGuard_new(initial_brightness) ==
    [ mode                   |-> Automatic,
      last_change_time       |-> 0,
      current_brightness     |-> initial_brightness,
      transition             |-> None,
      last_user_override     |-> None,
      is_locked              |-> FALSE,
      transition_duration_ms |-> DEFAULT_DURATION_MS ]

\* Variant: the duration stored as given.
set_transition_duration_unclamped(G, ms) ==
    [G EXCEPT !.transition_duration_ms = ms]

set_transition_duration(G, ms) ==
    [G EXCEPT !.transition_duration_ms = clamp(ms, MIN_DURATION_MS, MAX_DURATION_MS)]

set_user_override(G) ==
    [G EXCEPT !.last_user_override = Some(0)]

get_safety_cap(G) ==
    IF G.mode = EmergencyStop THEN 0 ELSE Pct(100)

is_in_grace_period(G, duration) ==
    IF IsSome(G.last_user_override)
    THEN Unwrap(G.last_user_override) < duration
    ELSE FALSE

can_update(G) ==
    IF G.mode = EmergencyStop
    THEN FALSE
    ELSE G.last_change_time >= MIN_SAFE_INTERVAL_MS

clamp_safe(val) == clamp(val, Pct(5), Pct(100))

\* Variant: the step without the EmergencyStop early return.
calculate_next_step_uncapped(G, target) ==
    LET cap         == get_safety_cap(G)
        tgt         == clamp_safe(Min(target, cap))
    IN  IF Abs(G.current_brightness - tgt) < DEAD_BAND
        THEN [guard |-> G, ret |-> G.current_brightness]
        ELSE LET diff           == tgt - G.current_brightness
                 step           == clamp(diff, -MAX_DELTA_PER_STEP, MAX_DELTA_PER_STEP)
                 new_brightness == clamp_safe(G.current_brightness + step)
             IN  [guard |-> [G EXCEPT !.current_brightness = new_brightness,
                                      !.last_change_time   = 0],
                  ret   |-> new_brightness]

\* Variant: the step that moves the brightness without stamping
\* last_change_time.
calculate_next_step_unstamped(G, target) ==
    IF G.mode = EmergencyStop
    THEN [guard |-> G, ret |-> G.current_brightness]
    ELSE LET tgt == clamp_safe(Min(target, get_safety_cap(G)))
         IN  IF Abs(G.current_brightness - tgt) < DEAD_BAND
             THEN [guard |-> G, ret |-> G.current_brightness]
             ELSE LET diff           == tgt - G.current_brightness
                      step           == clamp(diff, -MAX_DELTA_PER_STEP, MAX_DELTA_PER_STEP)
                      new_brightness == clamp_safe(G.current_brightness + step)
                  IN  [guard |-> [G EXCEPT !.current_brightness = new_brightness],
                       ret   |-> new_brightness]

\* Variant: the step that stamps last_change_time inside the dead-band too.
calculate_next_step_restamping(G, target) ==
    IF G.mode = EmergencyStop
    THEN [guard |-> G, ret |-> G.current_brightness]
    ELSE LET tgt == clamp_safe(Min(target, get_safety_cap(G)))
         IN  IF Abs(G.current_brightness - tgt) < DEAD_BAND
             THEN [guard |-> [G EXCEPT !.last_change_time = 0],
                   ret   |-> G.current_brightness]
             ELSE LET diff           == tgt - G.current_brightness
                      step           == clamp(diff, -MAX_DELTA_PER_STEP, MAX_DELTA_PER_STEP)
                      new_brightness == clamp_safe(G.current_brightness + step)
                  IN  [guard |-> [G EXCEPT !.current_brightness = new_brightness,
                                           !.last_change_time   = 0],
                       ret   |-> new_brightness]

\* Returns [guard |-> the guard after the call, ret |-> the returned value].
calculate_next_step(G, target) ==
    IF G.mode = EmergencyStop
    THEN [guard |-> G, ret |-> G.current_brightness]
    ELSE LET cap         == get_safety_cap(G)
             tgt         == clamp_safe(Min(target, cap))
         IN  IF Abs(G.current_brightness - tgt) < DEAD_BAND
             THEN [guard |-> G, ret |-> G.current_brightness]
             ELSE LET max_change     == MAX_DELTA_PER_STEP
                      diff           == tgt - G.current_brightness
                      step           == clamp(diff, -max_change, max_change)
                      new_brightness == clamp_safe(G.current_brightness + step)
                  IN  [guard |-> [G EXCEPT !.current_brightness = new_brightness,
                                           !.last_change_time   = 0],
                       ret   |-> new_brightness]

\* struct TransitionState as the two transition operations fill it in
NewTransition(G, target, duration_ms) ==
    [ current_brightness |-> G.current_brightness,
      initial_brightness |-> G.current_brightness,
      target_brightness  |-> target,
      start_time         |-> 0,
      duration           |-> duration_ms ]

\* Variant: the request without the debounce against the in-flight target.
request_transition_restarting(G, target) ==
    IF G.mode = EmergencyStop
    THEN G
    ELSE LET tgt == Min(target, get_safety_cap(G))
         IN  IF Abs(tgt - G.current_brightness) < DEAD_BAND
             THEN G
             ELSE [G EXCEPT !.transition =
                       Some(NewTransition(G, tgt, G.transition_duration_ms))]

request_transition(G, target) ==
    IF G.mode = EmergencyStop
    THEN G
    ELSE LET cap == get_safety_cap(G)
             tgt == Min(target, cap)
         IN  IF IsSome(G.transition)
                /\ Abs(Unwrap(G.transition).target_brightness - tgt) < DEAD_BAND
             THEN G
             ELSE IF Abs(tgt - G.current_brightness) < DEAD_BAND
             THEN G
             ELSE [G EXCEPT !.transition =
                       Some(NewTransition(G, tgt, G.transition_duration_ms))]

\* Variant: the forced transition whose target is not capped.
force_instant_transition_uncapped(G, target) ==
    IF IsSome(G.transition)
       /\ Abs(Unwrap(G.transition).target_brightness - target) < DEAD_BAND
    THEN G
    ELSE IF Abs(target - G.current_brightness) < DEAD_BAND
    THEN G
    ELSE [G EXCEPT !.transition = Some(NewTransition(G, target, FORCED_DURATION_MS))]

\* Variant: the forced transition that lasts the configured duration.
force_instant_transition_configured(G, target) ==
    LET tgt == Min(target, get_safety_cap(G))
    IN  IF IsSome(G.transition)
           /\ Abs(Unwrap(G.transition).target_brightness - tgt) < DEAD_BAND
        THEN G
        ELSE IF Abs(tgt - G.current_brightness) < DEAD_BAND
        THEN G
        ELSE [G EXCEPT !.transition =
                  Some(NewTransition(G, tgt, G.transition_duration_ms))]

force_instant_transition(G, target) ==
    LET cap == get_safety_cap(G)
        tgt == Min(target, cap)
    IN  IF IsSome(G.transition)
           /\ Abs(Unwrap(G.transition).target_brightness - tgt) < DEAD_BAND
        THEN G
        ELSE IF Abs(tgt - G.current_brightness) < DEAD_BAND
        THEN G
        ELSE [G EXCEPT !.transition =
                  Some(NewTransition(G, tgt, FORCED_DURATION_MS))]

\* ease_in_out(t) = -(cos(pi t) - 1)/2 for t in [0,1], in thousandths.
\* cos is computed in fixed point by Bhaskara's rational approximation
\* cos(x) ~ (pi^2 - 4x^2)/(pi^2 + x^2) on [-pi/2, pi/2] (error < 0.002) and
\* cos(pi t) = -cos(pi (1 - t)) on the upper half.
EaseLower(t) == (5 * t * t * 1000) \div (2 * (1000 * 1000 + t * t))

\* Variant: an easing curve that runs ahead of the clock and passes 1.
ease_in_out_overshooting(t) == (3 * t) \div 2

ease_in_out(t) ==
    IF 2 * t <= 1000 THEN EaseLower(t) ELSE 1000 - EaseLower(1000 - t)

\* Variant: under EmergencyStop the tick finishes the transition it cancels.
tick_transition_finishing(G) ==
    IF G.mode = EmergencyStop
    THEN [guard |-> [G EXCEPT !.transition = None,
                              !.current_brightness =
                                  IF IsSome(G.transition)
                                  THEN Unwrap(G.transition).target_brightness
                                  ELSE @],
          ret   |-> None]
    ELSE IF IsSome(G.transition)
    THEN LET trans == Unwrap(G.transition)
         IN  IF trans.start_time >= trans.duration
             THEN [guard |-> [G EXCEPT !.current_brightness = trans.target_brightness,
                                       !.transition         = None],
                   ret   |-> Some(trans.target_brightness)]
             ELSE LET eased_t == ease_in_out((trans.start_time * 1000) \div trans.duration)
                      span    == trans.target_brightness - trans.initial_brightness
                      new_val == IF span >= 0
                                 THEN trans.initial_brightness + (span * eased_t) \div 1000
                                 ELSE trans.initial_brightness - ((-span) * eased_t) \div 1000
                  IN  [guard |-> [G EXCEPT !.current_brightness = new_val,
                                           !.last_change_time   = 0],
                       ret   |-> Some(new_val)]
    ELSE [guard |-> G, ret |-> None]

\* Variant: the tick that ends a finished transition back where it began.
tick_transition_reverting(G) ==
    IF G.mode = EmergencyStop
    THEN [guard |-> [G EXCEPT !.transition = None], ret |-> None]
    ELSE IF IsSome(G.transition)
    THEN LET trans == Unwrap(G.transition)
         IN  IF trans.start_time >= trans.duration
             THEN [guard |-> [G EXCEPT !.current_brightness = trans.initial_brightness,
                                       !.transition         = None],
                   ret   |-> Some(trans.initial_brightness)]
             ELSE LET eased_t == ease_in_out((trans.start_time * 1000) \div trans.duration)
                      span    == trans.target_brightness - trans.initial_brightness
                      new_val == IF span >= 0
                                 THEN trans.initial_brightness + (span * eased_t) \div 1000
                                 ELSE trans.initial_brightness - ((-span) * eased_t) \div 1000
                  IN  [guard |-> [G EXCEPT !.current_brightness = new_val,
                                           !.last_change_time   = 0],
                       ret   |-> Some(new_val)]
    ELSE [guard |-> G, ret |-> None]

\* Variant: the tick that keeps a finished transition in place.
tick_transition_lingering(G) ==
    IF G.mode = EmergencyStop
    THEN [guard |-> [G EXCEPT !.transition = None], ret |-> None]
    ELSE IF IsSome(G.transition)
    THEN LET trans == Unwrap(G.transition)
         IN  IF trans.start_time >= trans.duration
             THEN [guard |-> [G EXCEPT !.current_brightness = trans.target_brightness],
                   ret   |-> Some(trans.target_brightness)]
             ELSE LET eased_t == ease_in_out((trans.start_time * 1000) \div trans.duration)
                      span    == trans.target_brightness - trans.initial_brightness
                      new_val == IF span >= 0
                                 THEN trans.initial_brightness + (span * eased_t) \div 1000
                                 ELSE trans.initial_brightness - ((-span) * eased_t) \div 1000
                  IN  [guard |-> [G EXCEPT !.current_brightness = new_val,
                                           !.last_change_time   = 0],
                       ret   |-> Some(new_val)]
    ELSE [guard |-> G, ret |-> None]

\* Variant: under EmergencyStop the tick drives the brightness to 0 and
\* returns it for the hardware write.
tick_transition_to_zero(G) ==
    IF G.mode = EmergencyStop
    THEN [guard |-> [G EXCEPT !.transition = None, !.current_brightness = 0],
          ret   |-> IF G.current_brightness = 0 THEN None ELSE Some(0)]
    ELSE IF IsSome(G.transition)
    THEN LET trans == Unwrap(G.transition)
         IN  IF trans.start_time >= trans.duration
             THEN [guard |-> [G EXCEPT !.current_brightness = trans.target_brightness,
                                       !.transition         = None],
                   ret   |-> Some(trans.target_brightness)]
             ELSE LET eased_t == ease_in_out((trans.start_time * 1000) \div trans.duration)
                      span    == trans.target_brightness - trans.initial_brightness
                      new_val == IF span >= 0
                                 THEN trans.initial_brightness + (span * eased_t) \div 1000
                                 ELSE trans.initial_brightness - ((-span) * eased_t) \div 1000
                  IN  [guard |-> [G EXCEPT !.current_brightness = new_val,
                                           !.last_change_time   = 0],
                       ret   |-> Some(new_val)]
    ELSE [guard |-> G, ret |-> None]

\* Variant: a tick under EmergencyStop ends the stop once no transition is
\* left to cancel.
tick_transition_expiring(G) ==
    IF G.mode = EmergencyStop
    THEN [guard |-> [G EXCEPT !.transition = None,
                              !.mode = IF IsSome(G.transition) THEN EmergencyStop
                                       ELSE Automatic],
          ret   |-> None]
    ELSE IF IsSome(G.transition)
    THEN LET trans == Unwrap(G.transition)
         IN  IF trans.start_time >= trans.duration
             THEN [guard |-> [G EXCEPT !.current_brightness = trans.target_brightness,
                                       !.transition         = None],
                   ret   |-> Some(trans.target_brightness)]
             ELSE LET eased_t == ease_in_out((trans.start_time * 1000) \div trans.duration)
                      span    == trans.target_brightness - trans.initial_brightness
                      new_val == IF span >= 0
                                 THEN trans.initial_brightness + (span * eased_t) \div 1000
                                 ELSE trans.initial_brightness - ((-span) * eased_t) \div 1000
                  IN  [guard |-> [G EXCEPT !.current_brightness = new_val,
                                           !.last_change_time   = 0],
                       ret   |-> Some(new_val)]
    ELSE [guard |-> G, ret |-> None]

\* Returns [guard |-> the guard after the call, ret |-> Option<f64>].
tick_transition(G) ==
    IF G.mode = EmergencyStop
    THEN [guard |-> [G EXCEPT !.transition = None], ret |-> None]
    ELSE IF IsSome(G.transition)
    THEN LET trans     == Unwrap(G.transition)
             elapsed   == trans.start_time
             total_dur == trans.duration
         IN  IF elapsed >= total_dur
             THEN [guard |-> [G EXCEPT !.current_brightness = trans.target_brightness,
                                       !.transition         = None],
                   ret   |-> Some(trans.target_brightness)]
             ELSE LET t       == (elapsed * 1000) \div total_dur
                      eased_t == ease_in_out(t)
                      span    == trans.target_brightness - trans.initial_brightness
                      new_val == IF span >= 0
                                 THEN trans.initial_brightness + (span * eased_t) \div 1000
                                 ELSE trans.initial_brightness - ((-span) * eased_t) \div 1000
                  IN  [guard |-> [G EXCEPT !.current_brightness = new_val,
                                           !.last_change_time   = 0],
                       ret   |-> Some(new_val)]
    ELSE [guard |-> G, ret |-> None]

\* The passage of ms milliseconds of real time, as every Instant of the
\* guard sees it (Instant::elapsed).
Elapse(G, ms) ==
    [G EXCEPT !.last_change_time   = Min(@ + ms, MIN_SAFE_INTERVAL_MS),
              !.transition         = IF IsSome(@)
                                     THEN Some([Unwrap(@) EXCEPT !.start_time =
                                                   Min(@ + ms, Unwrap(G.transition).duration)])
                                     ELSE @,
              !.last_user_override = IF IsSome(@)
                                     THEN Some(Min(Unwrap(@) + ms, GRACE_MS))
                                     ELSE @]


\* ------------------------------------------------------------------------
\* State

VARIABLES
    guard,               \* the EpilepsyGuard (daemon: Arc<Mutex<EpilepsyGuard>>)
    tick_count,          \* main: tick_count, kept modulo DRIFT_PERIOD
    content_multiplier,  \* main: content_multiplier, in thousandths
    luma_shared,         \* main: luma_shared, Option of thousandths
    flashbang_enabled,   \* main: flashbang_enabled
    weather_modifier,    \* main: weather_modifier, in thousandths
    wake_time,           \* ContextManager.wake_time as <<hour, minute>>
    state_file,          \* the state file: None, or Some(the JSON object in it)
    utc_hour,            \* chrono::Utc::now().hour() as the policy reads it
    elevation,           \* calculate_solar_elevation(now), in tenths of a degree
    on_battery,          \* is_on_battery()
    hw,                  \* the last set_brightness call: value, result, mode at the call
    hw_fails,            \* the backend is failing: set_brightness returns Err
    inputs,              \* number of external inputs (calls, commands, samples) so far
    call,                \* the last operation: name, argument, guard before, returned
                         \* value (ret), response sent to the client (resp)
    applied_age,         \* ms since an operation last assigned current_brightness
    sched                \* who holds the guard's mutex, and where the loop and the
                         \* connection being served stand in their code

vars == << guard, tick_count, content_multiplier, luma_shared, flashbang_enabled,
           weather_modifier, wake_time, state_file, utc_hour, elevation,
           on_battery, hw, hw_fails, inputs, call, applied_age, sched >>

daemon_vars == << tick_count, content_multiplier, luma_shared, flashbang_enabled,
                  weather_modifier, wake_time, state_file, utc_hour, elevation,
                  on_battery, hw, hw_fails, sched >>

\* the Arc<Mutex<_>> values shared between the tasks of the daemon
Mutexes == {"guard", "context", "weather_modifier", "flashbang_enabled", "state_manager"}

\* the tasks that lock them: the main loop, the weather task and two
\* connection handlers alive at the same time
LockTasks == {"loop", "weather", "conn1", "conn2"}

\* nobody holds the mutex, the loop awaits its interval, no connection is open;
\* owner and todo follow every mutex and every task one lock() at a time:
\* owner[m] is the task holding m, todo[t] the lock and unlock steps task t
\* has still to take on the code path it is running
SchedIdle ==
    [ lock      |-> "free",
      loop_pc   |-> "await",
      loop_seen |-> None,
      conn      |-> [pc |-> "closed", op |-> "", arg |-> 0, seen |-> None, resp |-> None],
      owner     |-> [m \in Mutexes |-> "free"],
      todo      |-> [t \in LockTasks |-> << >>] ]

\* ------------------------------------------------------------------------
\* Bounds of the guard-level specification

\* number of direct guard calls in one run
MaxCalls == 3

\* initial brightness values of the unit tests (epilepsy_tests.rs: 20.0, 50.0)
GuardInitials == {Pct(20), Pct(50)}

\* targets passed to calculate_next_step
StepTargets == {Pct(2), Pct(50) + 5, Pct(100), Pct(150)}

\* targets passed to request_transition / force_instant_transition
TransitionTargets == {Pct(2), Pct(50), Pct(80), Pct(150)}

\* arguments of set_transition_duration
DurationArgs == {100, 5000}

\* thread::sleep arguments, in ms
SleepMs == {100, 350}

Age(a, ms) == Min(a + ms, MIN_SAFE_INTERVAL_MS)

\* ------------------------------------------------------------------------
\* Guard-level specification: a caller that owns a guard and calls its public
\* operations in any order, as the unit tests of epilepsy_tests.rs do.

InitGuard ==
    /\ \E b \in GuardInitials :
          /\ guard = EpilepsyGuard_new(b)
          /\ call = [op |-> "new", arg |-> b, pre |-> EpilepsyGuard_new(b), ret |-> None, resp |-> None]
    /\ tick_count = 0
    /\ content_multiplier = 1000
    /\ luma_shared = None
    /\ flashbang_enabled = TRUE
    /\ weather_modifier = 1000
    /\ wake_time = <<7, 0>>
    /\ state_file = None
    /\ utc_hour = 12
    /\ elevation = 0
    /\ on_battery = FALSE
    /\ hw = None
    /\ hw_fails = FALSE
    /\ inputs = 0
    /\ applied_age = 0
    /\ sched = SchedIdle

DoCalculateNextStep(target) ==
    /\ inputs < MaxCalls
    /\ LET r == calculate_next_step(guard, target)
       IN  /\ guard' = r.guard
           /\ call' = [op |-> "calculate_next_step", arg |-> target,
                       pre |-> guard, ret |-> Some(r.ret), resp |-> None]
           /\ applied_age' = IF r.guard.current_brightness /= guard.current_brightness
                             THEN 0 ELSE applied_age
    /\ inputs' = inputs + 1
    /\ UNCHANGED daemon_vars

DoRequestTransition(target) ==
    /\ inputs < MaxCalls
    /\ guard' = request_transition(guard, target)
    /\ call' = [op |-> "request_transition", arg |-> target, pre |-> guard, ret |-> None, resp |-> None]
    /\ inputs' = inputs + 1
    /\ UNCHANGED << daemon_vars, applied_age >>

DoForceInstantTransition(target) ==
    /\ inputs < MaxCalls
    /\ guard' = force_instant_transition(guard, target)
    /\ call' = [op |-> "force_instant_transition", arg |-> target, pre |-> guard, ret |-> None, resp |-> None]
    /\ inputs' = inputs + 1
    /\ UNCHANGED << daemon_vars, applied_age >>

DoTickTransition ==
    /\ inputs < MaxCalls
    /\ LET r == tick_transition(guard)
       IN  /\ guard' = r.guard
           /\ call' = [op |-> "tick_transition", arg |-> 0, pre |-> guard, ret |-> r.ret, resp |-> None]
           /\ applied_age' = IF IsSome(r.ret) THEN 0 ELSE applied_age
    /\ inputs' = inputs + 1
    /\ UNCHANGED daemon_vars

DoSetTransitionDuration(ms) ==
    /\ inputs < MaxCalls
    /\ guard' = set_transition_duration(guard, ms)
    /\ call' = [op |-> "set_transition_duration", arg |-> ms, pre |-> guard, ret |-> None, resp |-> None]
    /\ inputs' = inputs + 1
    /\ UNCHANGED << daemon_vars, applied_age >>

\* guard.mode = SafetyMode::... (the field is public; epilepsy_tests.rs:55)
DoSetMode(m) ==
    /\ inputs < MaxCalls
    /\ guard.mode /= m
    /\ guard' = [guard EXCEPT !.mode = m]
    /\ call' = [op |-> "set_mode", arg |-> m, pre |-> guard, ret |-> None, resp |-> None]
    /\ inputs' = inputs + 1
    /\ UNCHANGED << daemon_vars, applied_age >>

\* thread::sleep(Duration::from_millis(ms))
Sleep(ms) ==
    /\ guard' = Elapse(guard, ms)
    /\ call' = [op |-> "sleep", arg |-> ms, pre |-> guard, ret |-> None, resp |-> None]
    /\ applied_age' = Age(applied_age, ms)
    /\ UNCHANGED << daemon_vars, inputs >>

NextGuard ==
    \/ \E t \in StepTargets : DoCalculateNextStep(t)
    \/ \E t \in TransitionTargets : DoRequestTransition(t)
    \/ \E t \in TransitionTargets : DoForceInstantTransition(t)
    \/ DoTickTransition
    \/ \E ms \in DurationArgs : DoSetTransitionDuration(ms)
    \/ \E m \in SafetyMode : DoSetMode(m)
    \/ \E ms \in SleepMs : Sleep(ms)

SpecGuard == InitGuard /\ [][NextGuard]_vars


\* ------------------------------------------------------------------------
\* daemon/src/state.rs: the persisted AppState (last_updated is never read)

AppState_default ==
    [ brightness             |-> Pct(15),
      wake_time              |-> None,
      transition_duration_ms |-> DEFAULT_DURATION_MS,
      flashbang_protection   |-> TRUE ]

\* The state file is None when the path does not exist or cannot be read,
\* and otherwise Some(json) with json the object found in it: a record over
\* the keys that are present.  Option<(u8, u8)> is written as null (<<>>) or
\* as an array of two numbers.
to_json_wake_time(wt) == IF IsSome(wt) THEN Unwrap(wt) ELSE <<>>

from_json_wake_time(j) == IF Len(j) = 0 THEN None ELSE Some(j)

\* serde_json::from_str::<AppState> succeeds: brightness and last_updated are
\* required, wake_time may be absent, the two #[serde(default)] fields too
Deserializes(json) ==
    /\ {"brightness", "last_updated"} \subseteq DOMAIN json
    /\ "wake_time" \in DOMAIN json =>
          /\ Len(json.wake_time) \in {0, 2}
          /\ \A i \in 1..Len(json.wake_time) : json.wake_time[i] \in 0..255
    /\ "transition_duration_ms" \in DOMAIN json => json.transition_duration_ms >= 0

\* the AppState serde builds from an object that deserializes
from_json(json) ==
    [ brightness             |-> json.brightness,
      wake_time              |-> IF "wake_time" \in DOMAIN json
                                 THEN from_json_wake_time(json.wake_time)
                                 ELSE None,
      transition_duration_ms |-> IF "transition_duration_ms" \in DOMAIN json
                                 THEN json.transition_duration_ms
                                 ELSE DEFAULT_DURATION_MS,
      flashbang_protection   |-> IF "flashbang_protection" \in DOMAIN json
                                 THEN json.flashbang_protection
                                 ELSE TRUE ]

\* StateManager::load on the file `file`
load(file) ==
    IF IsSome(file) /\ Deserializes(Unwrap(file))
    THEN from_json(Unwrap(file))
    ELSE AppState_default

\* Variant: a save that writes no wake time.
save_forgetting_wake_time(brightness, wt, transition_duration_ms, flashbang_protection) ==
    Some([ brightness             |-> brightness,
           wake_time              |-> <<>>,
           transition_duration_ms |-> transition_duration_ms,
           flashbang_protection   |-> flashbang_protection,
           last_updated           |-> "now" ])

\* StateManager::save: the file after serde_json::to_string and fs::write
save(brightness, wt, transition_duration_ms, flashbang_protection) ==
    Some([ brightness             |-> brightness,
           wake_time              |-> to_json_wake_time(wt),
           transition_duration_ms |-> transition_duration_ms,
           flashbang_protection   |-> flashbang_protection,
           last_updated           |-> "now" ])

\* ------------------------------------------------------------------------
\* core/src/context.rs: ContextManager

\* x degrees, in tenths of a degree
Deg(x) == x * 10

\* GeneralConfig.wake_time default "07:00"
CONFIG_WAKE_TIME == <<7, 0>>

\* NaiveTime::from_hms_opt(hour, minute, 0) is Some iff hour < 24 and minute < 60
\* Variant: the wake time taken without asking NaiveTime::from_hms_opt.
set_wake_time_unvalidated(wt, hour, minute) == <<hour, minute>>

set_wake_time(wt, hour, minute) ==
    IF hour < 24 /\ minute < 60 THEN <<hour, minute>> ELSE wt

get_wake_time(wt) == wt

\* Variant: the twilight segment falling by 25 instead of 20.
get_circadian_target_steep(wt, hour, elev) ==
    LET now_local == hour + 3
    IN  IF now_local < wt[1]
        THEN Pct(10)
        ELSE IF elev > Deg(6)
        THEN LET day_progress == clamp(((elev - Deg(6)) * 1000) \div Deg(40), 0, 1000)
             IN  Pct(50) + (Pct(50) * day_progress) \div 1000
        ELSE IF elev > -Deg(6)
        THEN LET t_progress == ((Deg(6) - elev) * 1000) \div Deg(12)
             IN  Pct(50) - (Pct(25) * t_progress) \div 1000
        ELSE IF elev > -Deg(12)
        THEN LET t_progress == ((-Deg(6) - elev) * 1000) \div Deg(6)
             IN  Pct(30) - (Pct(10) * t_progress) \div 1000
        ELSE Pct(20)

\* get_circadian_target, given now.hour() and the solar elevation at now
get_circadian_target(wt, hour, elev) ==
    LET now_local == hour + 3
    IN  IF now_local < wt[1]
        THEN Pct(10)
        ELSE IF elev > Deg(6)
        THEN LET day_progress == clamp(((elev - Deg(6)) * 1000) \div Deg(40), 0, 1000)
             IN  Pct(50) + (Pct(50) * day_progress) \div 1000
        ELSE IF elev > -Deg(6)
        THEN LET t_progress == ((Deg(6) - elev) * 1000) \div Deg(12)
             IN  Pct(50) - (Pct(20) * t_progress) \div 1000
        ELSE IF elev > -Deg(12)
        THEN LET t_progress == ((-Deg(6) - elev) * 1000) \div Deg(6)
             IN  Pct(30) - (Pct(10) * t_progress) \div 1000
        ELSE Pct(20)

\* ------------------------------------------------------------------------
\* daemon/src/main.rs: the control loop

\* interval period of the high-frequency loop, ms
TICK_MS == 8

\* tick_count % 125: the policy cadence
POLICY_PERIOD == 125

\* tick_count % 625: the persistence cadence
PERSIST_PERIOD == 625

\* tick_count % 75000: the slow drift check
DRIFT_PERIOD == 75000

\* x * f for a factor f in thousandths
Mul(x, f) == (x * f) \div 1000

\* Variant: the recovery of the content multiplier without its ceiling.
ContentStep_unbounded(cm, luma, is_fb_enabled) ==
    IF IsSome(luma)
    THEN IF is_fb_enabled
         THEN IF Unwrap(luma) > 500
              THEN LET excess      == ((Unwrap(luma) - 500) * 1000) \div 500
                       target_mult == 1000 - Mul(excess, 950)
                   IN  IF target_mult < cm THEN target_mult ELSE cm + 50
              ELSE cm + 50
         ELSE 1000
    ELSE cm

\* Variant: the recovery under bright content capped at 1.0 only.
ContentStep_recovering_past_desired(cm, luma, is_fb_enabled) ==
    IF IsSome(luma)
    THEN IF is_fb_enabled
         THEN IF Unwrap(luma) > 500
              THEN LET excess      == ((Unwrap(luma) - 500) * 1000) \div 500
                       target_mult == 1000 - Mul(excess, 950)
                   IN  IF target_mult < cm
                       THEN target_mult
                       ELSE Min(cm + 50, 1000)
              ELSE Min(cm + 50, 1000)
         ELSE 1000
    ELSE cm

\* Variant: the multiplier recovering step by step once protection is off.
ContentStep_relaxing_slowly(cm, luma, is_fb_enabled) ==
    IF IsSome(luma)
    THEN IF is_fb_enabled
         THEN IF Unwrap(luma) > 500
              THEN LET excess      == ((Unwrap(luma) - 500) * 1000) \div 500
                       target_mult == 1000 - Mul(excess, 950)
                   IN  IF target_mult < cm
                       THEN target_mult
                       ELSE Min(cm + 50, target_mult)
              ELSE Min(cm + 50, 1000)
         ELSE Min(cm + 50, 1000)
    ELSE cm

\* step 1 of the tick: the content multiplier after the tick
ContentStep(cm, luma, is_fb_enabled) ==
    IF IsSome(luma)
    THEN IF is_fb_enabled
         THEN IF Unwrap(luma) > 500
              THEN LET excess      == ((Unwrap(luma) - 500) * 1000) \div 500
                       target_mult == 1000 - Mul(excess, 950)
                   IN  IF target_mult < cm
                       THEN target_mult
                       ELSE Min(cm + 50, target_mult)
              ELSE Min(cm + 50, 1000)
         ELSE 1000
    ELSE cm

\* Variant: the battery factor applied whatever the power source.
PolicyTarget_always_battery(wt, hour, elev, w_factor, cm, battery) ==
    LET t0 == get_circadian_target(wt, hour, elev)
        t1 == IF w_factor < 990 THEN Mul(t0, w_factor) ELSE t0
        t2 == IF cm < 990 THEN Mul(t1, cm) ELSE t1
    IN  Mul(t2, 800)

\* step 2.B: the composed target
PolicyTarget(wt, hour, elev, w_factor, cm, battery) ==
    LET t0 == get_circadian_target(wt, hour, elev)
        t1 == IF w_factor < 990 THEN Mul(t0, w_factor) ELSE t0
        t2 == IF cm < 990 THEN Mul(t1, cm) ELSE t1
    IN  IF battery THEN Mul(t2, 800) ELSE t2

\* Variant: the distance rule tried before the content-dimming rule.
SmartTransition_by_distance(G, target, cm, tick) ==
    LET diff                  == Abs(G.current_brightness - target)
        is_dimming_for_safety == target < G.current_brightness - Pct(1) /\ cm < 990
    IN  IF diff > Pct(5)
        THEN request_transition(G, target)
        ELSE IF is_dimming_for_safety
        THEN force_instant_transition(G, target)
        ELSE IF diff > Pct(1) /\ tick % DRIFT_PERIOD = 0
        THEN request_transition(G, target)
        ELSE G

\* Variant: the slow drift rule without its 1.0 threshold.
SmartTransition_restless(G, target, cm, tick) ==
    LET diff                  == Abs(G.current_brightness - target)
        is_dimming_for_safety == target < G.current_brightness - Pct(1) /\ cm < 990
    IN  IF is_dimming_for_safety
        THEN force_instant_transition(G, target)
        ELSE IF diff > Pct(5)
        THEN request_transition(G, target)
        ELSE IF tick % DRIFT_PERIOD = 0
        THEN request_transition(G, target)
        ELSE G

\* step 2.C: the smart transition logic
SmartTransition(G, target, cm, tick) ==
    LET diff                  == Abs(G.current_brightness - target)
        is_dimming_for_safety == target < G.current_brightness - Pct(1) /\ cm < 990
    IN  IF is_dimming_for_safety
        THEN force_instant_transition(G, target)
        ELSE IF diff > Pct(5)
        THEN request_transition(G, target)
        ELSE IF diff > Pct(1) /\ tick % DRIFT_PERIOD = 0
        THEN request_transition(G, target)
        ELSE G

\* Variant: the policy that does not look at the grace period.
PolicyTick_ignoring_grace(G, target, cm, tick) ==
    IF ~G.is_locked /\ G.mode = Automatic
    THEN SmartTransition(G, target, cm, tick)
    ELSE G

\* step 2 of the tick, on a tick with tick_count % 125 == 0
PolicyTick(G, target, cm, tick) ==
    IF ~G.is_locked /\ G.mode = Automatic
    THEN IF ~is_in_grace_period(G, GRACE_MS)
         THEN SmartTransition(G, target, cm, tick)
         ELSE G
    ELSE G

\* Variant: a failed hardware write leaves the guard where it was.
HardwareTick_undone_on_error(G, hw_ok) ==
    IF hw_ok THEN tick_transition(G) ELSE [guard |-> G, ret |-> tick_transition(G).ret]

\* step 3 of the tick, as far as the guard goes: tick_transition has moved
\* the guard before set_brightness is called, and an Err is only logged
HardwareTick(G, hw_ok) == tick_transition(G)

\* main's startup: restore from the state file and build the loop's state.
\* hw_ok is the result of the initial controller.set_brightness.
\* Variant: the startup that takes any persisted brightness as it is.
Boot_trusting_file(file, hw_ok) ==
    LET state == load(file)
        g0    == EpilepsyGuard_new(state.brightness)
    IN  [ guard             |-> set_transition_duration(g0, state.transition_duration_ms),
          flashbang_enabled |-> state.flashbang_protection,
          wake_time         |-> IF IsSome(state.wake_time)
                                THEN set_wake_time(CONFIG_WAKE_TIME,
                                                   Unwrap(state.wake_time)[1],
                                                   Unwrap(state.wake_time)[2])
                                ELSE CONFIG_WAKE_TIME,
          hw                |-> [value |-> state.brightness, ok |-> hw_ok, mode |-> Automatic] ]

Boot(file, hw_ok) ==
    LET state        == load(file)
        initial_b    == state.brightness
        safe_initial == IF initial_b < Pct(5) THEN Pct(15) ELSE initial_b
        g0           == EpilepsyGuard_new(safe_initial)
    IN  [ guard             |-> set_transition_duration(g0, state.transition_duration_ms),
          flashbang_enabled |-> state.flashbang_protection,
          wake_time         |-> IF IsSome(state.wake_time)
                                THEN set_wake_time(CONFIG_WAKE_TIME,
                                                   Unwrap(state.wake_time)[1],
                                                   Unwrap(state.wake_time)[2])
                                ELSE CONFIG_WAKE_TIME,
          hw                |-> [value |-> safe_initial, ok |-> hw_ok, mode |-> Automatic] ]


\* ------------------------------------------------------------------------
\* Bounds of the daemon-level specification

\* number of external inputs (commands, samples, restarts) in one run
MaxInputs == 2

\* while the loop animates, inputs arrive on every InputEvery-th iteration
InputEvery == 125

\* state files found at the first start: none, and a hand-edited one
InitFiles ==
    { None,
      Some([ brightness             |-> Pct(3),
             wake_time              |-> <<6, 30>>,
             transition_duration_ms |-> 100,
             flashbang_protection   |-> FALSE,
             last_updated           |-> "2024-01-01T00:00:00Z" ]) }

\* <<UTC hour, solar elevation>> at which the policy may find the clock
Moments == { <<0, -Deg(30)>>, <<10, Deg(46)>>, <<16, Deg(0)>> }

BrightnessArgs == {Pct(2), Pct(41), Pct(150)}

WakeArgs == { <<6, 30>>, <<25, 0>>, <<8, 75>> }

LumaSamples == {300, 600, 1000}

WeatherFactors == {700, 1000}

\* ------------------------------------------------------------------------
\* The high-frequency loop (main.rs:241-357)

\* An iteration is idle when it changes nothing but tick_count and the ages:
\* no transition to play, the content multiplier at its fixed point, and the
\* policy either not due, skipped, or deciding on no action.
Quiescent ==
    /\ guard.transition = None
    /\ ContentStep(content_multiplier, luma_shared, flashbang_enabled) = content_multiplier

CeilDiv(a, b) == (a + b - 1) \div b

\* FastTick runs a maximal run of idle iterations together with the first
\* iteration after it.  IterationCount is the length of that run plus one:
\* 1 when the loop is not quiescent; otherwise the distance to the first
\* tick on which the policy starts a transition, or, when no such tick
\* exists, to the next multiple of DRIFT_PERIOD (after which tick_count,
\* kept modulo DRIFT_PERIOD, repeats).
IterationCount ==
    IF ~Quiescent
    THEN 1
    ELSE LET to_policy == POLICY_PERIOD - (tick_count % POLICY_PERIOD)
             to_drift  == DRIFT_PERIOD - (tick_count % DRIFT_PERIOD)
             \* iterations until the grace period is over
             grace     == IF IsSome(guard.last_user_override)
                          THEN CeilDiv(GRACE_MS - Unwrap(guard.last_user_override), TICK_MS)
                          ELSE 0
             First(d, period) == d + period * CeilDiv(Max(0, grace - d), period)
             target    == PolicyTarget(wake_time, utc_hour, elevation,
                                       weather_modifier, content_multiplier, on_battery)
             diff      == Abs(guard.current_brightness - target)
             dimming   == target < guard.current_brightness - Pct(1)
                          /\ content_multiplier < 990
             runs      == ~guard.is_locked /\ guard.mode = Automatic
         IN  IF runs /\ (dimming \/ diff > Pct(5))
             THEN First(to_policy, POLICY_PERIOD)
             ELSE IF runs /\ diff > Pct(1)
             THEN First(to_drift, DRIFT_PERIOD)
             ELSE to_drift

FastTick ==
        LET hw_ok  == ~hw_fails
            n      == IterationCount
            tick   == (tick_count + n) % DRIFT_PERIOD
            g1     == Elapse(guard, n * TICK_MS)
            cm     == ContentStep(content_multiplier, luma_shared, flashbang_enabled)
            target == PolicyTarget(wake_time, utc_hour, elevation,
                                   weather_modifier, cm, on_battery)
            g2     == IF tick % POLICY_PERIOD = 0
                      THEN PolicyTick(g1, target, cm, tick)
                      ELSE g1
            r      == HardwareTick(g2, hw_ok)
        IN  /\ tick_count' = tick
            /\ content_multiplier' = cm
            /\ guard' = r.guard
            /\ IF IsSome(r.ret)
               THEN /\ hw' = [value |-> Unwrap(r.ret), ok |-> hw_ok, mode |-> g2.mode]
                    /\ state_file' =
                          IF hw_ok /\ tick % PERSIST_PERIOD = 0
                          THEN save(Unwrap(r.ret), Some(get_wake_time(wake_time)),
                                    r.guard.transition_duration_ms, flashbang_enabled)
                          ELSE state_file
               ELSE UNCHANGED << hw, state_file >>
            /\ applied_age' = IF IsSome(r.ret) THEN 0 ELSE Age(applied_age, n * TICK_MS)
            /\ call' = [op |-> "FastTick", arg |-> n, pre |-> guard, ret |-> r.ret, resp |-> None]
            /\ UNCHANGED << luma_shared, flashbang_enabled, weather_modifier, wake_time,
                            utc_hour, elevation, on_battery, hw_fails, inputs, sched >>

\* ------------------------------------------------------------------------
\* handle_connection (main.rs:384-508): one action per command

\* Commands and environment changes are explored between two iterations of
\* the loop when the loop is idle and, while it is animating, on every
\* InputEvery-th iteration.
InputOpen ==
    /\ inputs < MaxInputs
    /\ Quiescent \/ tick_count % InputEvery = 0

IpcOk == [kind |-> "Ok"]

\* format!("{:02}", n) for n < 100, as the sequence of its characters
DecimalDigits == << "0", "1", "2", "3", "4", "5", "6", "7", "8", "9" >>

\* format!("{:02}:{:02}", h, m)
format_wake_time(hm) ==
    << DecimalDigits[(hm[1] \div 10) + 1], DecimalDigits[(hm[1] % 10) + 1], ":",
       DecimalDigits[(hm[2] \div 10) + 1], DecimalDigits[(hm[2] % 10) + 1] >>

IpcStatus(G, wt, fb) ==
    [ kind                   |-> "Status",
      brightness             |-> G.current_brightness,
      wake_time              |-> format_wake_time(get_wake_time(wt)),
      transition_duration_ms |-> G.transition_duration_ms,
      flashbang_protection   |-> fb ]

SetBrightness(val) ==
    /\ InputOpen
    /\ LET g == request_transition(set_user_override(guard), val)
       IN  /\ guard' = g
           /\ state_file' = save(val, Some(get_wake_time(wake_time)),
                                 g.transition_duration_ms, flashbang_enabled)
    /\ call' = [op |-> "SetBrightness", arg |-> val, pre |-> guard, ret |-> None, resp |-> Some(IpcOk)]
    /\ inputs' = inputs + 1
    /\ UNCHANGED << tick_count, content_multiplier, luma_shared, flashbang_enabled,
                    weather_modifier, wake_time, utc_hour, elevation, on_battery,
                    hw, hw_fails, applied_age, sched >>

SetWakeTime(h, m) ==
    /\ InputOpen
    /\ wake_time' = set_wake_time(wake_time, h, m)
    /\ state_file' = save(guard.current_brightness, Some(<<h, m>>),
                          guard.transition_duration_ms, flashbang_enabled)
    /\ call' = [op |-> "SetWakeTime", arg |-> <<h, m>>, pre |-> guard, ret |-> None, resp |-> Some(IpcOk)]
    /\ inputs' = inputs + 1
    /\ UNCHANGED << guard, tick_count, content_multiplier, luma_shared, flashbang_enabled,
                    weather_modifier, utc_hour, elevation, on_battery, hw, hw_fails, applied_age, sched >>

SetTransitionDuration(ms) ==
    /\ InputOpen
    /\ guard' = set_transition_duration(guard, ms)
    /\ state_file' = save(guard.current_brightness, Some(get_wake_time(wake_time)),
                          ms, flashbang_enabled)
    /\ call' = [op |-> "SetTransitionDuration", arg |-> ms, pre |-> guard, ret |-> None, resp |-> Some(IpcOk)]
    /\ inputs' = inputs + 1
    /\ UNCHANGED << tick_count, content_multiplier, luma_shared, flashbang_enabled,
                    weather_modifier, wake_time, utc_hour, elevation, on_battery,
                    hw, hw_fails, applied_age, sched >>

SetFlashbangProtection(enabled) ==
    /\ InputOpen
    /\ flashbang_enabled' = enabled
    /\ state_file' = save(guard.current_brightness, Some(get_wake_time(wake_time)),
                          guard.transition_duration_ms, enabled)
    /\ call' = [op |-> "SetFlashbangProtection", arg |-> enabled, pre |-> guard,
                ret |-> None, resp |-> Some(IpcOk)]
    /\ inputs' = inputs + 1
    /\ UNCHANGED << guard, tick_count, content_multiplier, luma_shared, weather_modifier,
                    wake_time, utc_hour, elevation, on_battery, hw, hw_fails, applied_age, sched >>

\* Freeze(seconds): the argument is ignored
Freeze ==
    /\ InputOpen
    /\ guard' = [guard EXCEPT !.mode = EmergencyStop]
    /\ call' = [op |-> "Freeze", arg |-> 0, pre |-> guard, ret |-> None, resp |-> Some(IpcOk)]
    /\ inputs' = inputs + 1
    /\ UNCHANGED << daemon_vars, applied_age >>

ResetAuto ==
    /\ InputOpen
    /\ LET t0     == get_circadian_target(wake_time, utc_hour, elevation)
           target == IF weather_modifier < 990 THEN Mul(t0, weather_modifier) ELSE t0
       IN  guard' = force_instant_transition([guard EXCEPT !.last_user_override = None],
                                             target)
    /\ call' = [op |-> "ResetAuto", arg |-> 0, pre |-> guard, ret |-> None, resp |-> Some(IpcOk)]
    /\ inputs' = inputs + 1
    /\ UNCHANGED << daemon_vars, applied_age >>

\* Variant: a query that counts as a manual change.
GetInfo_marking_override(cmd) ==
    /\ InputOpen
    /\ guard' = set_user_override(guard)
    /\ call' = [op |-> cmd, arg |-> 0, pre |-> guard,
                ret |-> None,
                resp |-> Some(IpcStatus(guard, wake_time, flashbang_enabled))]
    /\ inputs' = inputs + 1
    /\ UNCHANGED << daemon_vars, applied_age >>

\* GetInfo | Heartbeat
GetInfo(cmd) ==
    /\ InputOpen
    /\ call' = [op |-> cmd, arg |-> 0, pre |-> guard,
                ret |-> None,
                resp |-> Some(IpcStatus(guard, wake_time, flashbang_enabled))]
    /\ inputs' = inputs + 1
    /\ UNCHANGED << guard, daemon_vars, applied_age >>

\* Variant: an unparseable payload answered like a command.
Malformed_acknowledged ==
    /\ InputOpen
    /\ call' = [op |-> "Malformed", arg |-> 0, pre |-> guard, ret |-> None, resp |-> Some(IpcOk)]
    /\ inputs' = inputs + 1
    /\ UNCHANGED << guard, daemon_vars, applied_age >>

\* a payload that is empty or does not parse as an IpcCommand: no response
Malformed ==
    /\ InputOpen
    /\ call' = [op |-> "Malformed", arg |-> 0, pre |-> guard, ret |-> None, resp |-> None]
    /\ inputs' = inputs + 1
    /\ UNCHANGED << guard, daemon_vars, applied_age >>

\* ------------------------------------------------------------------------
\* The background producers and the environment

\* the content analysis task stores a sample (main.rs:222-224)
ContentSample(luma) ==
    /\ InputOpen
    /\ luma_shared /= Some(luma)
    /\ luma_shared' = Some(luma)
    /\ call' = [op |-> "ContentSample", arg |-> luma, pre |-> guard, ret |-> None, resp |-> None]
    /\ inputs' = inputs + 1
    /\ UNCHANGED << guard, tick_count, content_multiplier, flashbang_enabled,
                    weather_modifier, wake_time, state_file, utc_hour, elevation,
                    on_battery, hw, hw_fails, applied_age, sched >>

\* the weather task stores a factor that differs by more than 0.01 (main.rs:196-202)
WeatherSync(factor) ==
    /\ InputOpen
    /\ Abs(weather_modifier - factor) > 10
    /\ weather_modifier' = factor
    /\ call' = [op |-> "WeatherSync", arg |-> factor, pre |-> guard, ret |-> None, resp |-> None]
    /\ inputs' = inputs + 1
    /\ UNCHANGED << guard, tick_count, content_multiplier, luma_shared, flashbang_enabled,
                    wake_time, state_file, utc_hour, elevation, on_battery, hw, hw_fails,
                    applied_age, sched >>

\* the wall clock moves to another hour and solar elevation
ClockMoves(moment) ==
    /\ InputOpen
    /\ <<utc_hour, elevation>> /= moment
    /\ utc_hour' = moment[1]
    /\ elevation' = moment[2]
    /\ call' = [op |-> "ClockMoves", arg |-> moment, pre |-> guard, ret |-> None, resp |-> None]
    /\ inputs' = inputs + 1
    /\ UNCHANGED << guard, tick_count, content_multiplier, luma_shared, flashbang_enabled,
                    weather_modifier, wake_time, state_file, on_battery, hw, hw_fails, applied_age, sched >>

\* the power source changes (is_on_battery)
PowerChanges ==
    /\ InputOpen
    /\ on_battery' = ~on_battery
    /\ call' = [op |-> "PowerChanges", arg |-> 0, pre |-> guard, ret |-> None, resp |-> None]
    /\ inputs' = inputs + 1
    /\ UNCHANGED << guard, tick_count, content_multiplier, luma_shared, flashbang_enabled,
                    weather_modifier, wake_time, state_file, utc_hour, elevation, hw, hw_fails,
                    applied_age, sched >>

\* the backlight backend starts or stops failing (set_brightness returns Err)
BackendChanges ==
    /\ InputOpen
    /\ hw_fails' = ~hw_fails
    /\ call' = [op |-> "BackendChanges", arg |-> 0, pre |-> guard, ret |-> None, resp |-> None]
    /\ inputs' = inputs + 1
    /\ UNCHANGED << guard, tick_count, content_multiplier, luma_shared, flashbang_enabled,
                    weather_modifier, wake_time, state_file, utc_hour, elevation,
                    on_battery, hw, applied_age, sched >>

\* the process is stopped and started again: main's startup runs on the file
Restart ==
    /\ InputOpen
    /\ LET b == Boot(state_file, ~hw_fails)
       IN  /\ guard' = b.guard
           /\ flashbang_enabled' = b.flashbang_enabled
           /\ wake_time' = b.wake_time
           /\ hw' = b.hw
    /\ tick_count' = 0
    /\ content_multiplier' = 1000
    /\ luma_shared' = None
    /\ weather_modifier' = 1000
    /\ applied_age' = 0
    /\ call' = [op |-> "Restart", arg |-> 0, pre |-> guard, ret |-> None, resp |-> None]
    /\ inputs' = inputs + 1
    /\ UNCHANGED << state_file, utc_hour, elevation, on_battery, hw_fails, sched >>

Init ==
    /\ hw_fails = FALSE
    /\ \E file \in InitFiles :
          LET b == Boot(file, ~hw_fails)
          IN  /\ state_file = file
              /\ guard = b.guard
              /\ flashbang_enabled = b.flashbang_enabled
              /\ wake_time = b.wake_time
              /\ hw = b.hw
              /\ call = [op |-> "Boot", arg |-> 0, pre |-> b.guard, ret |-> None, resp |-> None]
    /\ tick_count = 0
    /\ content_multiplier = 1000
    /\ luma_shared = None
    /\ weather_modifier = 1000
    /\ \E moment \in Moments :
          /\ utc_hour = moment[1]
          /\ elevation = moment[2]
    /\ on_battery = FALSE
    /\ inputs = 0
    /\ applied_age = 0
    /\ sched = SchedIdle

Next ==
    \/ FastTick
    \/ \E val \in BrightnessArgs : SetBrightness(val)
    \/ \E wt \in WakeArgs : SetWakeTime(wt[1], wt[2])
    \/ \E ms \in DurationArgs : SetTransitionDuration(ms)
    \/ \E enabled \in BOOLEAN : SetFlashbangProtection(enabled)
    \/ Freeze
    \/ ResetAuto
    \/ \E cmd \in {"GetInfo", "Heartbeat"} : GetInfo(cmd)
    \/ Malformed
    \/ \E luma \in LumaSamples : ContentSample(luma)
    \/ \E factor \in WeatherFactors : WeatherSync(factor)
    \/ \E moment \in Moments : ClockMoves(moment)
    \/ PowerChanges
    \/ BackendChanges
    \/ Restart

Spec == Init /\ [][Next]_vars

\* The loop under the commands that set and leave EmergencyStop or ask for
\* a brightness, with the scheduling tokio's interval gives the loop: an
\* iteration that can run does run.
NextLive ==
    \/ FastTick
    \/ \E val \in BrightnessArgs : SetBrightness(val)
    \/ Freeze
    \/ ResetAuto
    \/ Restart

SpecLive == Init /\ [][NextLive]_vars /\ WF_vars(FastTick)

\* The loop under a constant policy target: the clock, the weather, the
\* screen content and the power source stay as they were at the start; the
\* user may set a brightness, change the transition duration and freeze.
NextConverge ==
    \/ FastTick
    \/ \E val \in {Pct(41)} : SetBrightness(val)
    \/ \E ms \in {5000} : SetTransitionDuration(ms)
    \/ Freeze

SpecConverge == Init /\ [][NextConverge]_vars /\ WF_vars(FastTick)

\* The daemon together with a caller that also invokes the guard's stepping
\* and transition operations directly, between two iterations of the loop.
NextCallers ==
    \/ FastTick
    \/ \E val \in BrightnessArgs : SetBrightness(val)
    \/ \E wt \in WakeArgs : SetWakeTime(wt[1], wt[2])
    \/ \E ms \in DurationArgs : SetTransitionDuration(ms)
    \/ \E enabled \in BOOLEAN : SetFlashbangProtection(enabled)
    \/ Freeze
    \/ ResetAuto
    \/ \E cmd \in {"GetInfo", "Heartbeat"} : GetInfo(cmd)
    \/ \E t \in StepTargets : InputOpen /\ DoCalculateNextStep(t)
    \/ \E t \in TransitionTargets : InputOpen /\ DoRequestTransition(t)
    \/ \E t \in TransitionTargets : InputOpen /\ DoForceInstantTransition(t)
    \/ InputOpen /\ DoTickTransition

SpecCallers == Init /\ [][NextCallers]_vars


\* ------------------------------------------------------------------------
\* The state manager on its own: a caller that saves and loads in any order,
\* starting from the files a start of the daemon may find.

StoreFiles ==
    { None,                                          \* no file
      Some([ brightness |-> Pct(40) ]),              \* a truncated object
      Some([ brightness             |-> Pct(40),     \* a wake time of three numbers
             wake_time              |-> <<6, 30, 0>>,
             last_updated           |-> "2024-01-01T00:00:00Z" ]),
      Some([ brightness             |-> Pct(40),     \* the defaulted keys left out
             last_updated           |-> "2024-01-01T00:00:00Z" ]),
      Some([ brightness             |-> Pct(3),
             wake_time              |-> <<6, 30>>,
             transition_duration_ms |-> 100,
             flashbang_protection   |-> FALSE,
             last_updated           |-> "2024-01-01T00:00:00Z" ]) }

SaveBrightness == {0, Pct(15), Pct(41) + 7, Pct(150)}

SaveWakeTimes == { None, Some(<<6, 30>>), Some(<<25, 0>>) }

SaveDurations == {100, 750, 5000}

InitStore ==
    /\ state_file \in StoreFiles
    /\ guard = EpilepsyGuard_new(Pct(15))
    /\ call = [op |-> "new", arg |-> 0, pre |-> EpilepsyGuard_new(Pct(15)),
               ret |-> None, resp |-> None]
    /\ tick_count = 0
    /\ content_multiplier = 1000
    /\ luma_shared = None
    /\ flashbang_enabled = TRUE
    /\ weather_modifier = 1000
    /\ wake_time = CONFIG_WAKE_TIME
    /\ utc_hour = 12
    /\ elevation = 0
    /\ on_battery = FALSE
    /\ hw = None
    /\ hw_fails = FALSE
    /\ inputs = 0
    /\ applied_age = 0
    /\ sched = SchedIdle

StoreSave(b, wt, td, fb) ==
    /\ state_file' = save(b, wt, td, fb)
    /\ call' = [op |-> "save", arg |-> <<b, wt, td, fb>>, pre |-> guard,
                ret |-> None, resp |-> None]
    /\ UNCHANGED << guard, tick_count, content_multiplier, luma_shared, flashbang_enabled,
                    weather_modifier, wake_time, utc_hour, elevation, on_battery,
                    hw, hw_fails, inputs, applied_age, sched >>

StoreLoad ==
    /\ call' = [op |-> "load", arg |-> 0, pre |-> guard,
                ret |-> None, resp |-> Some(load(state_file))]
    /\ UNCHANGED << guard, daemon_vars, inputs, applied_age >>

NextStore ==
    \/ \E b \in SaveBrightness, wt \in SaveWakeTimes, td \in SaveDurations, fb \in BOOLEAN :
          StoreSave(b, wt, td, fb)
    \/ StoreLoad

SpecStore == InitStore /\ [][NextStore]_vars


\* ------------------------------------------------------------------------
\* The context manager on its own: get_circadian_target evaluated at every
\* UTC hour and wake hour, and along the whole range of solar elevations.

Hours == 0..23

SolarElevations == (-Deg(20))..Deg(50)

\* the elevations of the segment joins
SegmentJoins == {-Deg(12), -Deg(6), Deg(6)}

InitContext ==
    /\ \E h \in Hours, w \in Hours, e \in SolarElevations :
          /\ (h = 10 /\ w = 7) \/ e \in SegmentJoins
          /\ utc_hour = h
          /\ wake_time = <<w, 0>>
          /\ elevation = e
    /\ guard = EpilepsyGuard_new(Pct(15))
    /\ call = [op |-> "new", arg |-> 0, pre |-> EpilepsyGuard_new(Pct(15)),
               ret |-> None, resp |-> None]
    /\ tick_count = 0
    /\ content_multiplier = 1000
    /\ luma_shared = None
    /\ flashbang_enabled = TRUE
    /\ weather_modifier = 1000
    /\ state_file = None
    /\ on_battery = FALSE
    /\ hw = None
    /\ hw_fails = FALSE
    /\ inputs = 0
    /\ applied_age = 0
    /\ sched = SchedIdle

ContextEvaluate ==
    /\ call' = [op |-> "get_circadian_target", arg |-> 0, pre |-> guard,
                ret |-> Some(get_circadian_target(wake_time, utc_hour, elevation)),
                resp |-> None]
    /\ UNCHANGED << guard, daemon_vars, inputs, applied_age >>

NextContext == ContextEvaluate

SpecContext == InitContext /\ [][NextContext]_vars


\* ------------------------------------------------------------------------
\* The loop and a connection handler as the runtime schedules them: the
\* handler is a task of its own (main.rs:373), so its steps interleave with
\* the steps of a loop iteration.  Each takes the guard's mutex for its
\* critical sections: the loop for the policy step (main.rs:291-336) and
\* again for the hardware tick (main.rs:340-356), the handler for the whole
\* command (main.rs:410-500).  A critical section is two steps here, taking
\* the mutex and running the body, and sched keeps the guard each holder
\* found when it got the mutex.  A connection is served within the loop
\* iteration it arrives in.

\* Variant: a mutex that is granted while somebody holds it.
GuardLockFree_unchecked == TRUE

\* guard.lock() returns when nobody holds the mutex
GuardLockFree == sched.lock = "free"

LockedCommands ==
    { [op |-> "SetBrightness", arg |-> Pct(41)],
      [op |-> "SetBrightness", arg |-> Pct(150)],
      [op |-> "ResetAuto", arg |-> 0],
      [op |-> "Freeze", arg |-> 0],
      [op |-> "GetInfo", arg |-> 0] }

\* the guard a command's match arm leaves (main.rs:411-499)
HandlerGuard(op, arg, G) ==
    CASE op = "SetBrightness" -> request_transition(set_user_override(G), arg)
      [] op = "Freeze"        -> [G EXCEPT !.mode = EmergencyStop]
      [] op = "ResetAuto"     ->
            LET t0     == get_circadian_target(wake_time, utc_hour, elevation)
                target == IF weather_modifier < 990 THEN Mul(t0, weather_modifier) ELSE t0
            IN  force_instant_transition([G EXCEPT !.last_user_override = None], target)
      [] OTHER                -> G

\* the state file a command's match arm leaves
HandlerFile(op, arg, G) ==
    IF op = "SetBrightness"
    THEN save(arg, Some(get_wake_time(wake_time)),
              HandlerGuard(op, arg, G).transition_duration_ms, flashbang_enabled)
    ELSE state_file

\* the response a command's match arm evaluates to
HandlerResponse(op, G) ==
    IF op \in {"GetInfo", "Heartbeat"}
    THEN IpcStatus(G, wake_time, flashbang_enabled)
    ELSE IpcOk

\* interval.tick() fires and step 1 runs (main.rs:243-285)
LoopAwait ==
    /\ sched.loop_pc = "await"
    /\ sched.conn.pc = "closed"
    /\ LET n    == IterationCount
           tick == (tick_count + n) % DRIFT_PERIOD
       IN  /\ tick_count' = tick
           /\ guard' = Elapse(guard, n * TICK_MS)
           /\ applied_age' = Age(applied_age, n * TICK_MS)
           /\ sched' = [sched EXCEPT !.loop_pc = IF tick % POLICY_PERIOD = 0
                                                 THEN "policy"
                                                 ELSE "hardware"]
           /\ call' = [op |-> "interval.tick", arg |-> n, pre |-> guard,
                       ret |-> None, resp |-> None]
    /\ content_multiplier' = ContentStep(content_multiplier, luma_shared, flashbang_enabled)
    /\ UNCHANGED << luma_shared, flashbang_enabled, weather_modifier, wake_time, state_file,
                    utc_hour, elevation, on_battery, hw, hw_fails, inputs >>

\* let mut g = guard.lock().unwrap() of the policy step (main.rs:291)
LoopPolicyLock ==
    /\ sched.loop_pc = "policy"
    /\ GuardLockFree
    /\ sched' = [sched EXCEPT !.lock = "loop", !.loop_pc = "policy_cs",
                              !.loop_seen = Some(guard)]
    /\ UNCHANGED << guard, tick_count, content_multiplier, luma_shared, flashbang_enabled,
                    weather_modifier, wake_time, state_file, utc_hour, elevation,
                    on_battery, hw, hw_fails, inputs, call, applied_age >>

\* the policy step under the mutex, and its release (main.rs:292-336)
LoopPolicyBody ==
    /\ sched.loop_pc = "policy_cs"
    /\ LET target == PolicyTarget(wake_time, utc_hour, elevation,
                                  weather_modifier, content_multiplier, on_battery)
       IN  guard' = PolicyTick(guard, target, content_multiplier, tick_count)
    /\ sched' = [sched EXCEPT !.lock = "free", !.loop_pc = "hardware", !.loop_seen = None]
    /\ call' = [op |-> "policy", arg |-> 0, pre |-> Unwrap(sched.loop_seen),
                ret |-> None, resp |-> None]
    /\ UNCHANGED << tick_count, content_multiplier, luma_shared, flashbang_enabled,
                    weather_modifier, wake_time, state_file, utc_hour, elevation,
                    on_battery, hw, hw_fails, inputs, applied_age >>

\* let mut g = guard.lock().unwrap() of the hardware tick (main.rs:340)
LoopHardwareLock ==
    /\ sched.loop_pc = "hardware"
    /\ GuardLockFree
    /\ sched' = [sched EXCEPT !.lock = "loop", !.loop_pc = "hardware_cs",
                              !.loop_seen = Some(guard)]
    /\ UNCHANGED << guard, tick_count, content_multiplier, luma_shared, flashbang_enabled,
                    weather_modifier, wake_time, state_file, utc_hour, elevation,
                    on_battery, hw, hw_fails, inputs, call, applied_age >>

\* the hardware tick under the mutex, and its release (main.rs:341-356)
LoopHardwareBody ==
    /\ sched.loop_pc = "hardware_cs"
    /\ LET hw_ok == ~hw_fails
           r     == HardwareTick(guard, hw_ok)
       IN  /\ guard' = r.guard
           /\ IF IsSome(r.ret)
              THEN /\ hw' = [value |-> Unwrap(r.ret), ok |-> hw_ok, mode |-> guard.mode]
                   /\ state_file' =
                         IF hw_ok /\ tick_count % PERSIST_PERIOD = 0
                         THEN save(Unwrap(r.ret), Some(get_wake_time(wake_time)),
                                   r.guard.transition_duration_ms, flashbang_enabled)
                         ELSE state_file
                   /\ applied_age' = 0
              ELSE UNCHANGED << hw, state_file, applied_age >>
           /\ call' = [op |-> "hardware", arg |-> 0, pre |-> Unwrap(sched.loop_seen),
                       ret |-> r.ret, resp |-> None]
    /\ sched' = [sched EXCEPT !.lock = "free", !.loop_pc = "await", !.loop_seen = None]
    /\ UNCHANGED << tick_count, content_multiplier, luma_shared, flashbang_enabled,
                    weather_modifier, wake_time, utc_hour, elevation, on_battery,
                    hw_fails, inputs >>

\* listener.accept(), the spawn, the read and the parse (main.rs:361-404)
ConnAccept(cmd) ==
    /\ sched.conn.pc = "closed"
    /\ inputs < MaxInputs
    /\ tick_count % InputEvery = 0 \/ (sched.loop_pc = "await" /\ Quiescent)
    /\ sched' = [sched EXCEPT !.conn = [pc |-> "lock", op |-> cmd.op, arg |-> cmd.arg,
                                        seen |-> None, resp |-> None]]
    /\ inputs' = inputs + 1
    /\ UNCHANGED << guard, tick_count, content_multiplier, luma_shared, flashbang_enabled,
                    weather_modifier, wake_time, state_file, utc_hour, elevation,
                    on_battery, hw, hw_fails, call, applied_age >>

\* let mut g = guard.lock().unwrap() of the handler (main.rs:410)
ConnLock ==
    /\ sched.conn.pc = "lock"
    /\ GuardLockFree
    /\ sched' = [sched EXCEPT !.lock = "conn", !.conn.pc = "cs", !.conn.seen = Some(guard)]
    /\ UNCHANGED << guard, tick_count, content_multiplier, luma_shared, flashbang_enabled,
                    weather_modifier, wake_time, state_file, utc_hour, elevation,
                    on_battery, hw, hw_fails, inputs, call, applied_age >>

\* the command's match arm under the mutex, and its release (main.rs:411-500)
ConnBody ==
    /\ sched.conn.pc = "cs"
    /\ LET op   == sched.conn.op
           arg  == sched.conn.arg
           resp == Some(HandlerResponse(op, guard))
       IN  /\ guard' = HandlerGuard(op, arg, guard)
           /\ state_file' = HandlerFile(op, arg, guard)
           /\ sched' = [sched EXCEPT !.lock = "free", !.conn.pc = "respond",
                                     !.conn.seen = None, !.conn.resp = resp]
           /\ call' = [op |-> op, arg |-> arg, pre |-> Unwrap(sched.conn.seen),
                       ret |-> None, resp |-> resp]
    /\ UNCHANGED << tick_count, content_multiplier, luma_shared, flashbang_enabled,
                    weather_modifier, wake_time, utc_hour, elevation, on_battery,
                    hw, hw_fails, inputs, applied_age >>

\* stream.write_all(&resp_bytes) and the end of the task (main.rs:502-508)
ConnRespond ==
    /\ sched.conn.pc = "respond"
    /\ sched' = [sched EXCEPT !.conn = SchedIdle.conn]
    /\ UNCHANGED << guard, tick_count, content_multiplier, luma_shared, flashbang_enabled,
                    weather_modifier, wake_time, state_file, utc_hour, elevation,
                    on_battery, hw, hw_fails, inputs, call, applied_age >>

NextLocked ==
    \/ LoopAwait
    \/ LoopPolicyLock
    \/ LoopPolicyBody
    \/ LoopHardwareLock
    \/ LoopHardwareBody
    \/ \E cmd \in LockedCommands : ConnAccept(cmd)
    \/ ConnLock
    \/ ConnBody
    \/ ConnRespond

SpecLocked == Init /\ [][NextLocked]_vars


\* ------------------------------------------------------------------------
\* The tasks of the daemon one lock() at a time.  Every code path is the
\* sequence of its lock and unlock steps: a MutexGuard bound with `let` is
\* released at the end of its block (or at drop), a temporary one at the end
\* of its statement.  Which path a task takes depends on data; here any path
\* may be taken.

\* `let x = m.lock().unwrap(); inner` in a block of its own
Scoped(m, inner) == << <<"lock", m>> >> \o inner \o << <<"unlock", m>> >>

\* `*m.lock().unwrap()` or `m.lock().unwrap().f(..)` within one statement
Temp(m) == Scoped(m, << >>)

\* step 2 of an iteration: skipped; nothing to evaluate; full evaluation
PolicyPaths ==
    { << >>,
      Scoped("guard", << >>),
      Scoped("guard", Scoped("context", Temp("weather_modifier"))) }

\* step 3 of an iteration: without and with the periodic save
HardwarePaths ==
    { Scoped("guard", << >>),
      Scoped("guard", Temp("context") \o Temp("flashbang_enabled") \o Temp("state_manager")) }

\* one iteration of the loop: step 1 reads the protection flag
LoopPaths ==
    { Temp("flashbang_enabled") \o p \o h : p \in PolicyPaths, h \in HardwarePaths }

\* the weather task writing the factor it fetched
WeatherPath == Temp("weather_modifier")

IpcCommands ==
    { "SetBrightness", "SetWakeTime", "SetTransitionDuration", "SetFlashbangProtection",
      "Freeze", "ResetAuto", "GetInfo", "Heartbeat" }

\* Variant: ResetAuto reading the context before it locks the guard.
HandlerPath_context_first(op) ==
    IF op = "ResetAuto"
    THEN Scoped("context", Scoped("guard", Temp("weather_modifier")))
    ELSE Scoped("guard", << >>)

\* handle_connection for one command
HandlerPath(op) ==
    IF op \in {"SetBrightness", "SetTransitionDuration"}
    THEN Scoped("guard", Scoped("context", Temp("flashbang_enabled") \o Temp("state_manager")))
    ELSE IF op = "SetWakeTime"
    THEN Scoped("guard", Temp("context") \o Temp("flashbang_enabled") \o Temp("state_manager"))
    ELSE IF op = "SetFlashbangProtection"
    THEN Scoped("guard", Temp("flashbang_enabled") \o Scoped("context", Temp("state_manager")))
    ELSE IF op = "ResetAuto"
    THEN Scoped("guard", Scoped("context", Temp("weather_modifier")))
    ELSE IF op \in {"GetInfo", "Heartbeat"}
    THEN Scoped("guard", Temp("context") \o Temp("flashbang_enabled"))
    ELSE Scoped("guard", << >>)

\* a task that is between two paths starts one
TaskBegin(t) ==
    /\ sched.todo[t] = << >>
    /\ \E path \in (IF t = "loop" THEN LoopPaths
                    ELSE IF t = "weather" THEN {WeatherPath}
                    ELSE {HandlerPath(op) : op \in IpcCommands}) :
          /\ path /= << >>
          /\ sched' = [sched EXCEPT !.todo[t] = path]
    /\ UNCHANGED << guard, tick_count, content_multiplier, luma_shared, flashbang_enabled,
                    weather_modifier, wake_time, state_file, utc_hour, elevation,
                    on_battery, hw, hw_fails, inputs, call, applied_age >>

\* lock(): returns when nobody holds the mutex
TaskLock(t) ==
    /\ sched.todo[t] /= << >>
    /\ Head(sched.todo[t])[1] = "lock"
    /\ sched.owner[Head(sched.todo[t])[2]] = "free"
    /\ sched' = [sched EXCEPT !.owner[Head(sched.todo[t])[2]] = t,
                              !.todo[t] = Tail(@)]
    /\ UNCHANGED << guard, tick_count, content_multiplier, luma_shared, flashbang_enabled,
                    weather_modifier, wake_time, state_file, utc_hour, elevation,
                    on_battery, hw, hw_fails, inputs, call, applied_age >>

\* the MutexGuard goes out of scope
TaskUnlock(t) ==
    /\ sched.todo[t] /= << >>
    /\ Head(sched.todo[t])[1] = "unlock"
    /\ sched' = [sched EXCEPT !.owner[Head(sched.todo[t])[2]] = "free",
                              !.todo[t] = Tail(@)]
    /\ UNCHANGED << guard, tick_count, content_multiplier, luma_shared, flashbang_enabled,
                    weather_modifier, wake_time, state_file, utc_hour, elevation,
                    on_battery, hw, hw_fails, inputs, call, applied_age >>

NextLocks ==
    \E t \in LockTasks :
        \/ TaskBegin(t)
        \/ TaskLock(t)
        \/ TaskUnlock(t)

SpecLocks == Init /\ [][NextLocks]_vars


\* ------------------------------------------------------------------------
\* Claims checked under SpecGuard

\* C2: one call of calculate_next_step(T), from any reachable guard state and
\* for any target T, changes current_brightness by at most
\* MAX_DELTA_PER_STEP, and outside the dead-band moves it toward the clamped
\* target by min(gap, MAX_DELTA_PER_STEP).
C2_StepWithinDelta ==
    call.op = "calculate_next_step" =>
        LET tgt   == clamp_safe(Min(call.arg, Pct(100)))
            gap   == Abs(tgt - call.pre.current_brightness)
            moved == Abs(guard.current_brightness - call.pre.current_brightness)
        IN  /\ moved <= MAX_DELTA_PER_STEP
            /\ (call.pre.mode = Automatic /\ gap >= DEAD_BAND) =>
                   /\ moved = Min(gap, MAX_DELTA_PER_STEP)
                   /\ Abs(tgt - guard.current_brightness) = gap - moved

\* C4: whenever the mode is EmergencyStop, a call of request_transition(T) or
\* of force_instant_transition(T) leaves the guard with no transition.
C4_EmergencyStopRejectsRequests ==
    ( /\ call.op \in {"request_transition", "force_instant_transition"}
      /\ call.pre.mode = EmergencyStop )
    => guard.transition = None

\* C8: in Automatic mode can_update() is false whenever less than
\* MIN_SAFE_INTERVAL_MS has elapsed since an operation last assigned
\* current_brightness and true once that much has elapsed; in EmergencyStop
\* it is always false.
C8_CanUpdateFollowsChanges ==
    /\ guard.mode = Automatic =>
           (can_update(guard) <=> applied_age >= MIN_SAFE_INTERVAL_MS)
    /\ guard.mode = EmergencyStop => ~can_update(guard)

C10_RequestReplacesInFlight ==
    ( /\ call.op = "request_transition"
      /\ call.pre.mode = Automatic
      /\ IsSome(call.pre.transition)
      /\ Abs(Min(call.arg, Pct(100))
             - Unwrap(call.pre.transition).target_brightness) > DEAD_BAND )
    => /\ IsSome(guard.transition)
       /\ Unwrap(guard.transition).initial_brightness = call.pre.current_brightness
       /\ Unwrap(guard.transition).target_brightness = Min(call.arg, Pct(100))
       /\ Unwrap(guard.transition).start_time = 0
       /\ guard.current_brightness = call.pre.current_brightness

\* ------------------------------------------------------------------------
\* Claims checked under Spec, SpecLive and SpecCallers

\* C1: every value passed to the hardware set_brightness (the startup write
\* and every fast-tick write) lies in [5,100]; the only exception is the
\* value 0 while the mode is EmergencyStop.
C1_HardwareWritesInRange ==
    \/ hw.value >= Pct(5) /\ hw.value <= Pct(100)
    \/ hw.value = 0 /\ hw.mode = EmergencyStop

\* C3: while the mode is EmergencyStop no guard operation, policy tick or
\* command changes current_brightness, no value above 0 is written to the
\* hardware, and calculate_next_step(T) returns the unchanged brightness.
C3_EmergencyStopNotBypassed ==
    /\ (call.pre.mode = EmergencyStop /\ guard.mode = EmergencyStop) =>
          /\ guard.current_brightness = call.pre.current_brightness
          /\ call.op = "calculate_next_step" =>
                call.ret = Some(call.pre.current_brightness)
          /\ call.op \in {"FastTick", "tick_transition"} => call.ret = None
    /\ hw.mode = EmergencyStop => hw.value <= 0

C3_Witness ==
    /\ call.op = "calculate_next_step"
    /\ call.pre.mode = EmergencyStop
    /\ call.arg > call.pre.current_brightness
    /\ call.ret = Some(guard.current_brightness)

\* C5 (as stated): after a Freeze, while the mode stays EmergencyStop, the
\* brightness and the value written to the hardware eventually reach 0.
C5_FreezeDrivesToZero ==
    (call.op = "Freeze")
        ~> (guard.mode /= EmergencyStop \/ (guard.current_brightness = 0 /\ hw.value = 0))

\* C5 (amended): a Freeze holds the brightness where it is.  The command
\* leaves current_brightness as it was and sets the mode; every later tick
\* under EmergencyStop cancels the transition in flight, leaves
\* current_brightness and the last hardware write untouched and persists
\* nothing.
C5_FreezeHoldsBrightness ==
    [][ /\ Freeze => /\ guard'.mode = EmergencyStop
                     /\ guard'.current_brightness = guard.current_brightness
                     /\ guard'.transition = guard.transition
        /\ (FastTick /\ guard.mode = EmergencyStop) =>
                     /\ guard'.mode = EmergencyStop
                     /\ guard'.transition = None
                     /\ guard'.current_brightness = guard.current_brightness
                     /\ hw' = hw
                     /\ state_file' = state_file ]_vars

C5_Witness ==
    /\ call.op = "FastTick"
    /\ call.pre.mode = EmergencyStop
    /\ IsSome(call.pre.transition)
    /\ guard.mode = EmergencyStop
    /\ guard.current_brightness > 0

\* C6: a Freeze command changes the mode to EmergencyStop, and a ResetAuto
\* command processed in EmergencyStop returns the mode to Automatic.
C6_ResetAutoResumes ==
    /\ call.op = "Freeze" => guard.mode = EmergencyStop
    /\ (call.op = "ResetAuto" /\ call.pre.mode = EmergencyStop) =>
          guard.mode = Automatic

\* C7: EmergencyStop never expires by itself: no fast tick, policy tick or
\* command other than ResetAuto changes the mode away from EmergencyStop.
C7_EmergencyStopNeverExpires ==
    ( /\ call.pre.mode = EmergencyStop
      /\ call.op \in {"FastTick", "SetBrightness", "SetWakeTime", "SetTransitionDuration",
                      "SetFlashbangProtection", "Freeze", "GetInfo", "Heartbeat",
                      "Malformed", "ContentSample", "WeatherSync", "ClockMoves",
                      "PowerChanges", "BackendChanges"} )
    => guard.mode = EmergencyStop

C7_Witness ==
    /\ call.op = "FastTick"
    /\ call.arg > POLICY_PERIOD
    /\ call.pre.mode = EmergencyStop
    /\ guard.mode = EmergencyStop

\* ------------------------------------------------------------------------
\* Claims C11..C14, checked under SpecGuard

\* C11: a request_transition(T) or force_instant_transition(T) whose capped
\* target is within 0.1 of the in-flight target leaves the transition as it
\* was: same initial, target, start time and duration.
C11_DebounceKeepsTransition ==
    ( /\ call.op \in {"request_transition", "force_instant_transition"}
      /\ IsSome(call.pre.transition)
      /\ Abs(Min(call.arg, get_safety_cap(call.pre))
             - Unwrap(call.pre.transition).target_brightness) < DEAD_BAND )
    => guard = call.pre

C11_Witness ==
    /\ call.op = "request_transition"
    /\ call.pre.mode = Automatic
    /\ IsSome(call.pre.transition)
    /\ Unwrap(call.pre.transition).start_time > 0
    /\ Unwrap(call.pre.transition).target_brightness = Min(call.arg, Pct(100))
    /\ Abs(call.arg - call.pre.current_brightness) >= DEAD_BAND
    /\ guard.transition = call.pre.transition

\* C12: a transition created by request_transition records the guard's
\* transition_duration_ms at the call (750 by default); one created by
\* force_instant_transition records 200 ms whatever is configured.
C12_RecordedDuration ==
    /\ ( /\ call.op = "request_transition"
         /\ guard.transition /= call.pre.transition )
       => /\ IsSome(guard.transition)
          /\ Unwrap(guard.transition).duration = call.pre.transition_duration_ms
    /\ ( /\ call.op = "force_instant_transition"
         /\ guard.transition /= call.pre.transition )
       => /\ IsSome(guard.transition)
          /\ Unwrap(guard.transition).duration = FORCED_DURATION_MS
    /\ call.op = "new" => guard.transition_duration_ms = DEFAULT_DURATION_MS

C12_Witness ==
    /\ call.op = "force_instant_transition"
    /\ call.pre.transition_duration_ms = MAX_DURATION_MS
    /\ guard.transition /= call.pre.transition
    /\ Unwrap(guard.transition).duration = FORCED_DURATION_MS

\* C13: in Automatic mode a tick_transition called once the elapsed time has
\* reached the duration returns the target, sets current_brightness to the
\* target and clears the transition.
C13_FinalSnap ==
    ( /\ call.op = "tick_transition"
      /\ call.pre.mode = Automatic
      /\ IsSome(call.pre.transition)
      /\ Unwrap(call.pre.transition).start_time >= Unwrap(call.pre.transition).duration )
    => /\ call.ret = Some(Unwrap(call.pre.transition).target_brightness)
       /\ guard.current_brightness = Unwrap(call.pre.transition).target_brightness
       /\ guard.transition = None

C13_Witness ==
    /\ call.op = "tick_transition"
    /\ call.pre.mode = Automatic
    /\ IsSome(call.pre.transition)
    /\ Unwrap(call.pre.transition).start_time >= Unwrap(call.pre.transition).duration
    /\ Unwrap(call.pre.transition).target_brightness /= call.pre.current_brightness
    /\ guard.transition = None

\* the value tick_transition returns for the guard G when its transition is
\* `elapsed` ms old
ValueAt(G, elapsed) ==
    Unwrap(tick_transition([G EXCEPT !.transition =
               Some([Unwrap(G.transition) EXCEPT !.start_time = elapsed])]).ret)

\* v lies between a and b, ends included
Between(v, a, b) == (a <= v /\ v <= b) \/ (b <= v /\ v <= a)

\* C14: every value tick_transition returns for a transition lies between
\* the transition's initial brightness and its target, and the values
\* returned at successive times never move back toward the initial
\* brightness nor pass the target.
C14_TickStaysOnPath ==
    ( /\ call.op = "tick_transition"
      /\ call.pre.mode = Automatic
      /\ IsSome(call.pre.transition) )
    => LET trans == Unwrap(call.pre.transition)
           now   == Unwrap(call.ret)
       IN  /\ Between(now, trans.initial_brightness, trans.target_brightness)
           /\ \A earlier \in 0 .. trans.start_time :
                 Between(ValueAt(call.pre, earlier), trans.initial_brightness, now)

C14_Witness ==
    /\ call.op = "tick_transition"
    /\ call.pre.mode = Automatic
    /\ IsSome(call.pre.transition)
    /\ IsSome(guard.transition)
    /\ Unwrap(call.pre.transition).start_time > 0
    /\ Unwrap(call.ret) /= Unwrap(call.pre.transition).initial_brightness
    /\ Unwrap(call.ret) /= Unwrap(call.pre.transition).target_brightness

\* ------------------------------------------------------------------------
\* Claims C15..C20, checked under Spec

\* what the policy step of the last loop iteration saw
PolicyCurrent == call.pre.current_brightness

PolicySeenTarget ==
    PolicyTarget(wake_time, utc_hour, elevation, weather_modifier,
                 content_multiplier, on_battery)

PolicyDiff == Abs(PolicyCurrent - PolicySeenTarget)

PolicyDimming ==
    PolicySeenTarget < PolicyCurrent - Pct(1) /\ content_multiplier < 990

\* the age of the user override when the policy step ran
OverrideAge == Unwrap(call.pre.last_user_override) + call.arg * TICK_MS

\* the last step was a loop iteration whose policy step was not skipped
PolicyEvaluated ==
    /\ call.op = "FastTick"
    /\ tick_count % POLICY_PERIOD = 0
    /\ ~call.pre.is_locked
    /\ call.pre.mode = Automatic
    /\ IsSome(call.pre.last_user_override) => OverrideAge >= GRACE_MS

\* the last step was a loop iteration in which a transition was created: the
\* tick that follows the policy step finds it with its clock at 0
PolicyStarted ==
    /\ call.op = "FastTick"
    /\ IsSome(guard.transition)
    /\ Unwrap(guard.transition).start_time = 0

\* C15: set_transition_duration stores its argument clamped to [300,2000],
\* transition_duration_ms lies in [300,2000] in every reachable state, and
\* every transition lasts the forced 200 ms or between 300 and 2000 ms.
C15_DurationInRange ==
    /\ guard.transition_duration_ms >= MIN_DURATION_MS
    /\ guard.transition_duration_ms <= MAX_DURATION_MS
    /\ call.op = "SetTransitionDuration" =>
          guard.transition_duration_ms = clamp(call.arg, MIN_DURATION_MS, MAX_DURATION_MS)
    /\ IsSome(guard.transition) =>
          \/ Unwrap(guard.transition).duration = FORCED_DURATION_MS
          \/ /\ Unwrap(guard.transition).duration >= MIN_DURATION_MS
             /\ Unwrap(guard.transition).duration <= MAX_DURATION_MS

C15_Witness ==
    /\ call.op = "Restart"
    /\ IsSome(state_file)
    /\ Unwrap(state_file).transition_duration_ms > MAX_DURATION_MS
    /\ guard.transition_duration_ms = MAX_DURATION_MS

\* C16: SetBrightness records a user override and ResetAuto clears it; the
\* policy creates a transition only on a policy tick, in Automatic mode,
\* with is_locked unset, and with no override younger than 30 minutes.
C16_GracePeriod ==
    /\ call.op = "SetBrightness" => guard.last_user_override = Some(0)
    /\ call.op = "ResetAuto" => guard.last_user_override = None
    /\ PolicyStarted =>
          /\ tick_count % POLICY_PERIOD = 0
          /\ call.pre.mode = Automatic
          /\ ~call.pre.is_locked
          /\ IsSome(call.pre.last_user_override) => OverrideAge >= GRACE_MS

C16_Witness ==
    /\ PolicyStarted
    /\ IsSome(call.pre.last_user_override)
    /\ OverrideAge >= GRACE_MS

\* C17: on a policy evaluation that is not skipped, when the target is more
\* than 1.0 below the current brightness and the content multiplier is below
\* 0.99, the guard gets a forced transition to the target: unless one to
\* that target was already in flight, a transition of 200 ms to the target
\* starts, also when the distance exceeds 5.
C17_ContentDimmingFirst ==
    (PolicyEvaluated /\ PolicyDimming) =>
        LET tgt == Min(PolicySeenTarget, Pct(100))
        IN  \/ /\ IsSome(call.pre.transition)
               /\ Abs(Unwrap(call.pre.transition).target_brightness - tgt) < DEAD_BAND
               /\ ~PolicyStarted
            \/ /\ PolicyStarted
               /\ Unwrap(guard.transition).target_brightness = tgt
               /\ Unwrap(guard.transition).duration = FORCED_DURATION_MS

C17_Witness ==
    /\ PolicyEvaluated
    /\ PolicyDimming
    /\ PolicyDiff > Pct(5)
    /\ PolicyStarted
    /\ Unwrap(guard.transition).duration = FORCED_DURATION_MS
    /\ guard.transition_duration_ms /= FORCED_DURATION_MS

\* C18: the policy never creates a transition when the distance to the
\* target is at most 1.0, and for a distance in (1.0, 5.0] without content
\* dimming it does so only when tick_count is a multiple of 75000.
C18_StabilityRule ==
    PolicyStarted =>
        /\ PolicyDiff > Pct(1)
        /\ (PolicyDiff <= Pct(5) /\ ~PolicyDimming) => tick_count % DRIFT_PERIOD = 0

C18_Witness ==
    /\ PolicyStarted
    /\ PolicyDiff <= Pct(5)
    /\ ~PolicyDimming
    /\ tick_count % DRIFT_PERIOD = 0

\* the composition of C19, factor by factor
ComposedTarget ==
    LET circadian == get_circadian_target(wake_time, utc_hour, elevation)
        weathered == IF weather_modifier >= 990
                     THEN circadian
                     ELSE (circadian * weather_modifier) \div 1000
        dimmed    == IF content_multiplier >= 990
                     THEN weathered
                     ELSE (weathered * content_multiplier) \div 1000
    IN  IF on_battery THEN (dimmed * 800) \div 1000 ELSE dimmed

\* C19: the policy target is the circadian target times the weather factor
\* only when that is below 0.99, times the content multiplier only when that
\* is below 0.99, times 0.8 only on battery; a transition the policy creates
\* goes to that target.
C19_TargetComposition ==
    /\ PolicySeenTarget = ComposedTarget
    /\ PolicyStarted =>
          Unwrap(guard.transition).target_brightness = Min(ComposedTarget, Pct(100))

C19_Witness ==
    /\ PolicyStarted
    /\ on_battery
    /\ weather_modifier < 990
    /\ content_multiplier >= 990
    /\ Unwrap(guard.transition).target_brightness
          < get_circadian_target(wake_time, utc_hour, elevation)

\* C20: the content multiplier is never above 1.0 and never below 0.05.
C20_ContentMultiplierRange ==
    /\ content_multiplier >= 50
    /\ content_multiplier <= 1000

C20_Witness ==
    /\ call.op = "FastTick"
    /\ content_multiplier = 50
    /\ luma_shared = Some(1000)

\* ------------------------------------------------------------------------
\* Claims C21..C27, checked under Spec

\* the multiplier the content curve asks for at luminance L > 0.5:
\* 1 - 0.95 * (L - 0.5) / 0.5, in thousandths
Desired(L) == 1000 - (19 * (L - 500)) \div 10

\* C21: on a loop iteration with protection enabled and a luminance sample
\* L > 0.5, a multiplier above desired = 1 - 0.95*(L-0.5)/0.5 becomes exactly
\* desired; otherwise it rises by at most 0.05 and not above desired.  With
\* L <= 0.5 it rises by 0.05 capped at 1.0.  After an iteration with L > 0.5
\* the multiplier is at most desired.
C21_DropIsInstant ==
    [][ (FastTick /\ flashbang_enabled /\ IsSome(luma_shared)) =>
            LET L  == Unwrap(luma_shared)
                cm == content_multiplier
            IN  IF L > 500
                THEN /\ Desired(L) < cm => content_multiplier' = Desired(L)
                     /\ Desired(L) >= cm =>
                            /\ content_multiplier' >= cm
                            /\ content_multiplier' <= cm + 50
                     /\ content_multiplier' <= Desired(L)
                ELSE content_multiplier' = Min(cm + 50, 1000) ]_vars

\* the multiplier recovering from 0.05 while the content is still bright
C21_Witness ==
    /\ call.op = "FastTick"
    /\ flashbang_enabled
    /\ luma_shared = Some(600)
    /\ content_multiplier > 50
    /\ content_multiplier < Desired(600)

\* C22: with protection disabled the multiplier is 1.0 after every loop
\* iteration, with or without a luminance sample; while no sample has been
\* delivered the multiplier is 1.0.
C22_DisabledRelaxes ==
    /\ [](luma_shared = None => content_multiplier = 1000)
    /\ [][ (FastTick /\ ~flashbang_enabled) => content_multiplier' = 1000 ]_vars

\* protection switched off while the multiplier was down at 0.05
C22_Witness ==
    /\ call.op = "FastTick"
    /\ ~flashbang_enabled
    /\ luma_shared = Some(1000)
    /\ content_multiplier = 1000
    /\ IsSome(state_file)
    /\ Unwrap(state_file).flashbang_protection = FALSE
    /\ IsSome(guard.transition)
    /\ Unwrap(guard.transition).duration = FORCED_DURATION_MS

MutatingCommand ==
    call.op \in {"SetBrightness", "SetWakeTime", "SetTransitionDuration",
                 "SetFlashbangProtection"}

\* C24: after each mutating command, whatever its argument, the persisted
\* wake_time, transition_duration_ms and flashbang_protection equal the
\* in-memory wake time, the guard's transition_duration_ms and the
\* protection flag.
C24_PersistedMatchesMemory ==
    MutatingCommand =>
        /\ load(state_file).wake_time = Some(get_wake_time(wake_time))
        /\ load(state_file).transition_duration_ms = guard.transition_duration_ms
        /\ load(state_file).flashbang_protection = flashbang_enabled

\* C25: when the last hardware write succeeded and 625 or more loop
\* iterations have passed since without a write, the persisted brightness is
\* the value of that write.
C25_LossBoundedToWindow ==
    (/\ call.op = "FastTick"
     /\ call.ret = None
     /\ call.arg >= PERSIST_PERIOD
     /\ hw.ok) =>
        load(state_file).brightness = hw.value

\* C26: on a loop iteration whose hardware write fails the guard's
\* current_brightness is the value tick_transition returned, a transition
\* whose duration has elapsed is finished with the guard on its target, and
\* a command handled while the backend fails is answered.
C26_FailedWriteKeepsGoing ==
    /\ (call.op = "FastTick" /\ IsSome(call.ret) /\ ~hw.ok) =>
          /\ hw.value = Unwrap(call.ret)
          /\ guard.current_brightness = Unwrap(call.ret)
          /\ (/\ IsSome(call.pre.transition)
              /\ tick_count % POLICY_PERIOD /= 0
              /\ Unwrap(call.pre.transition).start_time + call.arg * TICK_MS
                    >= Unwrap(call.pre.transition).duration) =>
                /\ guard.transition = None
                /\ guard.current_brightness = Unwrap(call.pre.transition).target_brightness
    /\ (hw_fails /\ call.op \in {"SetBrightness", "GetInfo", "Heartbeat", "ResetAuto"}) =>
          IsSome(call.resp)

\* the last iteration of a transition whose every write the backend refused
C26_Witness ==
    /\ call.op = "FastTick"
    /\ IsSome(call.ret)
    /\ ~hw.ok
    /\ IsSome(call.pre.transition)
    /\ guard.transition = None
    /\ guard.current_brightness = Unwrap(call.pre.transition).target_brightness
    /\ guard.current_brightness /= Unwrap(call.pre.transition).initial_brightness

\* C27: a connection that delivers GetInfo or Heartbeat gets one Status
\* response built from the guard, the wake time and the protection flag;
\* one that delivers any other command gets one Ok; one that delivers an
\* empty or unparseable payload gets no response and leaves the guard, the
\* wake time, the protection flag and the state file as they were.
C27_ResponsePairing ==
    [][ /\ call'.op \in {"GetInfo", "Heartbeat"} =>
              call'.resp = Some([ kind                   |-> "Status",
                                  brightness             |-> guard.current_brightness,
                                  wake_time              |-> format_wake_time(wake_time),
                                  transition_duration_ms |-> guard.transition_duration_ms,
                                  flashbang_protection   |-> flashbang_enabled ])
        /\ call'.op \in {"SetBrightness", "SetWakeTime", "SetTransitionDuration",
                         "SetFlashbangProtection", "Freeze", "ResetAuto"} =>
              call'.resp = Some([kind |-> "Ok"])
        /\ call'.op = "Malformed" =>
              /\ call'.resp = None
              /\ UNCHANGED << guard, wake_time, flashbang_enabled, state_file >> ]_vars

\* an unparseable payload arriving while a transition is being played
C27_Witness ==
    /\ call.op = "Malformed"
    /\ call.resp = None
    /\ IsSome(guard.transition)
    /\ IsSome(state_file)

\* ------------------------------------------------------------------------
\* Claims C29 and C30, checked under SpecContext

\* C29: when the local hour is not before the wake hour, the target lies in
\* [20,100], does not fall when the elevation rises by 0.1 degree and rises
\* by at most 0.2 then (no jump), and is 20, 30 and 50 at the joins -12, -6
\* and 6 degrees.
C29_ElevationMapping ==
    (call.op = "get_circadian_target" /\ (utc_hour + 3) % 24 >= wake_time[1]) =>
        LET here  == Unwrap(call.ret)
            above == get_circadian_target(wake_time, utc_hour, elevation + 1)
        IN  /\ here >= Pct(20)
            /\ here <= Pct(100)
            /\ here <= above
            /\ above - here <= 20
            /\ elevation = -Deg(12) => here = Pct(20)
            /\ elevation = -Deg(6) => here = Pct(30)
            /\ elevation = Deg(6) => here = Pct(50)

\* the target just above the join at -6 degrees
C29_Witness ==
    /\ call.op = "get_circadian_target"
    /\ elevation = -Deg(6) + 1
    /\ Unwrap(call.ret) > Pct(30)
    /\ Unwrap(call.ret) <= Pct(30) + 20

\* C30: for every UTC hour and wake hour, get_circadian_target returns the
\* sleep brightness 10 exactly when the local hour of the day is before the
\* wake hour, whatever the elevation.
C30_SleepBeforeWake ==
    call.op = "get_circadian_target" =>
        (Unwrap(call.ret) = Pct(10) <=> (utc_hour + 3) % 24 < wake_time[1])

\* ------------------------------------------------------------------------
\* Claim C28, checked under SpecLocked

\* the loop is inside one of its two critical sections
LoopInside == sched.loop_pc \in {"policy_cs", "hardware_cs"}

\* the handler is inside its critical section
ConnInside == sched.conn.pc = "cs"

\* C28: under every interleaving of a command handler with the policy step
\* and the hardware tick, the handler and the loop are never inside their
\* critical sections together and the guard a holder works on is the guard
\* it found when it took the mutex; a Status reports the current_brightness
\* found then, and a transition created by a command or by the policy has
\* the brightness found then as its initial brightness, a clock at 0, and
\* the forced or the configured duration.
C28_SerializedOnGuard ==
    /\ ~(LoopInside /\ ConnInside)
    /\ LoopInside => sched.loop_seen = Some(guard)
    /\ ConnInside => sched.conn.seen = Some(guard)
    /\ call.op \in {"GetInfo", "Heartbeat"} =>
          Unwrap(call.resp).brightness = call.pre.current_brightness
    /\ (/\ call.op \in {"policy", "SetBrightness", "ResetAuto"}
        /\ IsSome(guard.transition)
        /\ guard.transition /= call.pre.transition) =>
          /\ Unwrap(guard.transition).initial_brightness = call.pre.current_brightness
          /\ Unwrap(guard.transition).start_time = 0
          /\ Unwrap(guard.transition).duration
                \in {FORCED_DURATION_MS, call.pre.transition_duration_ms}

\* a handler waiting for the mutex while the hardware tick plays a
\* transition under it
C28_Witness ==
    /\ sched.conn.pc = "lock"
    /\ sched.loop_pc = "hardware_cs"
    /\ sched.lock = "loop"
    /\ IsSome(guard.transition)

\* ------------------------------------------------------------------------
\* Claims C31 and C32, checked under Spec

\* C31: every transition of the forced 200 ms goes down: its target is
\* below the brightness the guard had when it was created.
C31_ForcedOnlyDims ==
    (IsSome(guard.transition) /\ Unwrap(guard.transition).duration = FORCED_DURATION_MS) =>
        Unwrap(guard.transition).target_brightness
            < Unwrap(guard.transition).initial_brightness

\* C32: a loop iteration that finds the mode EmergencyStop and a transition
\* in flight cancels the transition, returns nothing for the hardware and
\* leaves the last hardware write as it was; no step that starts and ends in
\* EmergencyStop changes current_brightness.
C32_FreezeMidTransition ==
    [][ /\ (FastTick /\ guard.mode = EmergencyStop /\ IsSome(guard.transition)) =>
              /\ guard'.transition = None
              /\ call'.ret = None
              /\ hw' = hw
        /\ (guard.mode = EmergencyStop /\ guard'.mode = EmergencyStop) =>
              guard'.current_brightness = guard.current_brightness ]_vars

\* a transition cancelled on its way, the brightness left between the two
\* ends and equal to the last value written to the hardware
C32_Witness ==
    /\ call.op = "FastTick"
    /\ call.pre.mode = EmergencyStop
    /\ IsSome(call.pre.transition)
    /\ guard.transition = None
    /\ guard.current_brightness /= Unwrap(call.pre.transition).initial_brightness
    /\ guard.current_brightness /= Unwrap(call.pre.transition).target_brightness
    /\ hw.value = guard.current_brightness

\* ------------------------------------------------------------------------
\* Claims C33 and C40, checked under SpecGuard

\* C33: calculate_next_step(T) in Automatic mode with T clamped to [5,100]
\* within 0.1 of current_brightness returns current_brightness and changes
\* neither current_brightness nor last_change_time; every call leaves the
\* transition, the mode and the user-override marker as they were.
C33_DeadBandNoOp ==
    call.op = "calculate_next_step" =>
        /\ (/\ call.pre.mode = Automatic
            /\ Abs(call.pre.current_brightness
                   - Max(Pct(5), Min(call.arg, Pct(100)))) < DEAD_BAND) =>
              /\ call.ret = Some(call.pre.current_brightness)
              /\ guard.current_brightness = call.pre.current_brightness
              /\ guard.last_change_time = call.pre.last_change_time
        /\ guard.transition = call.pre.transition
        /\ guard.mode = call.pre.mode
        /\ guard.last_user_override = call.pre.last_user_override

\* a step inside the dead-band on a guard whose last change is 100 ms old
C33_Witness ==
    /\ call.op = "calculate_next_step"
    /\ call.pre.mode = Automatic
    /\ call.arg /= call.pre.current_brightness
    /\ Abs(call.pre.current_brightness - call.arg) < DEAD_BAND
    /\ call.pre.last_change_time > 0
    /\ guard.last_change_time = call.pre.last_change_time

\* C40: a transition created in Automatic mode by request_transition or
\* force_instant_transition has the requested target capped at 100 as its
\* target, at least 0.1 away from the current brightness; a request whose
\* capped target is within 0.1 of the current brightness leaves the guard's
\* transition as it was.
C40_TransitionTargetCapped ==
    (/\ call.op \in {"request_transition", "force_instant_transition"}
     /\ call.pre.mode = Automatic) =>
        LET capped == IF call.arg > Pct(100) THEN Pct(100) ELSE call.arg
        IN  /\ guard.transition /= call.pre.transition =>
                  /\ IsSome(guard.transition)
                  /\ Unwrap(guard.transition).target_brightness = capped
                  /\ Unwrap(guard.transition).target_brightness <= Pct(100)
                  /\ Abs(capped - call.pre.current_brightness) >= DEAD_BAND
            /\ Abs(capped - call.pre.current_brightness) < DEAD_BAND =>
                  guard.transition = call.pre.transition

\* a forced transition asked for 150 and created towards 100
C40_Witness ==
    /\ call.op = "force_instant_transition"
    /\ call.pre.mode = Automatic
    /\ call.arg > Pct(100)
    /\ guard.transition /= call.pre.transition
    /\ Unwrap(guard.transition).target_brightness = Pct(100)

\* ------------------------------------------------------------------------
\* Claims C37, C38 and C39, checked under Spec

\* C37: right after a restart the guard is in Automatic mode with no
\* transition and no user override, at the persisted brightness (15 when that
\* is below 5), with the persisted duration clamped to [300,2000]; the
\* protection flag is the persisted one, and the wake time is the persisted
\* one when one is stored with hour < 24 and minute < 60.
C37_RestartResumes ==
    call.op = "Restart" =>
        LET rec == load(state_file)
        IN  /\ guard.mode = Automatic
            /\ guard.transition = None
            /\ guard.last_user_override = None
            /\ guard.current_brightness =
                  (IF rec.brightness < Pct(5) THEN Pct(15) ELSE rec.brightness)
            /\ guard.transition_duration_ms =
                  Max(MIN_DURATION_MS, Min(rec.transition_duration_ms, MAX_DURATION_MS))
            /\ flashbang_enabled = rec.flashbang_protection
            /\ (/\ IsSome(rec.wake_time)
                /\ Unwrap(rec.wake_time)[1] < 24
                /\ Unwrap(rec.wake_time)[2] < 60) =>
                  wake_time = Unwrap(rec.wake_time)

\* a frozen daemon restarted on a record whose brightness is below 5
C37_Witness ==
    /\ call.op = "Restart"
    /\ call.pre.mode = EmergencyStop
    /\ guard.mode = Automatic
    /\ IsSome(state_file)
    /\ load(state_file).brightness < Pct(5)
    /\ guard.current_brightness = Pct(15)

\* C38: GetInfo and Heartbeat leave the guard, the wake time, the protection
\* flag and the state file unchanged, and answer a Status with the guard's
\* current brightness, its transition duration, the protection flag and the
\* wake time written as two digits, a colon, two digits.
C38_QueriesReadOnly ==
    [][ call'.op \in {"GetInfo", "Heartbeat"} =>
          /\ UNCHANGED << guard, wake_time, flashbang_enabled, state_file >>
          /\ IsSome(call'.resp)
          /\ LET st == Unwrap(call'.resp)
                 value(c) == CHOOSE d \in 0..9 : DecimalDigits[d + 1] = c
             IN  /\ st.kind = "Status"
                 /\ st.brightness = guard.current_brightness
                 /\ st.transition_duration_ms = guard.transition_duration_ms
                 /\ st.flashbang_protection = flashbang_enabled
                 /\ Len(st.wake_time) = 5
                 /\ st.wake_time[3] = ":"
                 /\ \A i \in {1, 2, 4, 5} :
                       \E d \in 0..9 : DecimalDigits[d + 1] = st.wake_time[i]
                 /\ 10 * value(st.wake_time[1]) + value(st.wake_time[2]) = wake_time[1]
                 /\ 10 * value(st.wake_time[4]) + value(st.wake_time[5]) = wake_time[2] ]_vars

\* a query answered 06:30 while a transition is being played
C38_Witness ==
    /\ call.op \in {"GetInfo", "Heartbeat"}
    /\ IsSome(guard.transition)
    /\ Unwrap(call.resp).wake_time = << "0", "6", ":", "3", "0" >>
    /\ Unwrap(call.resp).brightness = guard.current_brightness

\* C39: SetWakeTime(h, m) with h < 24 and m < 60 makes the wake time <<h, m>>
\* and with any other argument leaves it as it was; a GetInfo or Heartbeat
\* that follows a rejected SetWakeTime reports the wake time in memory, not
\* the rejected argument.
C39_WakeTimeValidated ==
    [][ /\ call'.op = "SetWakeTime" =>
              wake_time' = (IF call'.arg[1] < 24 /\ call'.arg[2] < 60
                            THEN call'.arg
                            ELSE wake_time)
        /\ (/\ call.op = "SetWakeTime"
            /\ ~(call.arg[1] < 24 /\ call.arg[2] < 60)
            /\ call'.op \in {"GetInfo", "Heartbeat"}) =>
              /\ Unwrap(call'.resp).wake_time = format_wake_time(wake_time)
              /\ Unwrap(call'.resp).wake_time /= format_wake_time(call.arg) ]_vars

\* 07:00 reported after SetWakeTime(25, 0), which the state file recorded
C39_Witness ==
    /\ call.op = "GetInfo"
    /\ Unwrap(call.resp).wake_time = << "0", "7", ":", "0", "0" >>
    /\ IsSome(state_file)
    /\ Unwrap(state_file).wake_time = <<25, 0>>

\* ------------------------------------------------------------------------
\* Claims C34 and C35, checked under SpecConverge

\* C34: with the loop scheduled fairly, a state with a transition in flight
\* in Automatic mode leads to the loop iteration that completes it, unless
\* before that the mode leaves Automatic or a request replaces it by a
\* transition towards another target; the iteration that completes a
\* transition leaves the guard with no transition and current_brightness
\* equal to the target that transition had.
C34_TransitionCompletes ==
    /\ [][ (/\ FastTick
            /\ guard.mode = Automatic
            /\ IsSome(guard.transition)
            /\ guard'.transition = None) =>
              guard'.current_brightness = Unwrap(guard.transition).target_brightness ]_vars
    /\ (guard.mode = Automatic /\ IsSome(guard.transition))
       ~> (\/ /\ call.op = "FastTick"
              /\ IsSome(call.pre.transition)
              /\ guard.transition = None
              /\ guard.current_brightness = Unwrap(call.pre.transition).target_brightness
           \/ guard.mode /= Automatic
           \/ /\ IsSome(call.pre.transition)
              /\ IsSome(guard.transition)
              /\ Unwrap(guard.transition).target_brightness
                    /= Unwrap(call.pre.transition).target_brightness)

\* the iteration that completes a transition and writes its target
C34_Witness ==
    /\ call.op = "FastTick"
    /\ call.pre.mode = Automatic
    /\ IsSome(call.pre.transition)
    /\ guard.mode = Automatic
    /\ guard.transition = None
    /\ guard.current_brightness = Unwrap(call.pre.transition).target_brightness
    /\ call.ret = Some(guard.current_brightness)

\* C35: a policy evaluation that finds, in Automatic mode outside the grace
\* period, a transition in flight towards the composed policy target leaves
\* that transition running (same start, same ends, same duration); and, the
\* composed target being constant, a state in Automatic mode outside the
\* grace period whose brightness differs from it by more than 5 leads to a
\* state whose brightness equals it, unless the mode leaves Automatic or a
\* manual change opens a grace period.
C35_PolicyConverges ==
    /\ [][ (/\ FastTick
            /\ tick_count' % POLICY_PERIOD = 0
            /\ guard.mode = Automatic
            /\ ~guard.is_locked
            /\ guard.last_user_override = None
            /\ IsSome(guard.transition)
            /\ Unwrap(guard.transition).target_brightness =
                  PolicyTarget(wake_time, utc_hour, elevation, weather_modifier,
                               content_multiplier', on_battery)) =>
              \/ guard'.transition = None
              \/ /\ IsSome(guard'.transition)
                 /\ [Unwrap(guard'.transition) EXCEPT !.start_time = 0, !.current_brightness = 0]
                       = [Unwrap(guard.transition) EXCEPT !.start_time = 0, !.current_brightness = 0]
                 /\ Unwrap(guard'.transition).start_time
                       > Unwrap(guard.transition).start_time ]_vars
    /\ (/\ guard.mode = Automatic
        /\ guard.last_user_override = None
        /\ Abs(guard.current_brightness
               - PolicyTarget(wake_time, utc_hour, elevation, weather_modifier,
                              content_multiplier, on_battery)) > Pct(5))
       ~> (\/ guard.current_brightness
                 = PolicyTarget(wake_time, utc_hour, elevation, weather_modifier,
                                content_multiplier, on_battery)
           \/ guard.mode /= Automatic
           \/ IsSome(guard.last_user_override))

\* a policy evaluation one second into the 2000 ms transition the policy
\* started, which goes on
C35_Witness ==
    /\ call.op = "FastTick"
    /\ tick_count % POLICY_PERIOD = 0
    /\ guard.mode = Automatic
    /\ guard.last_user_override = None
    /\ IsSome(call.pre.transition)
    /\ IsSome(guard.transition)
    /\ Unwrap(guard.transition).start_time >= 1000
    /\ Unwrap(guard.transition).target_brightness =
          PolicyTarget(wake_time, utc_hour, elevation, weather_modifier,
                       content_multiplier, on_battery)

\* ------------------------------------------------------------------------
\* Claim C36, checked under SpecLocks

\* C36: a task that asks for a mutex while it holds others holds the guard,
\* and asks in the order guard, then context, then one of weather scalar,
\* protection flag and state manager; and there is no set of tasks each of
\* which waits for a mutex held by another task of the set.
C36_LockOrder ==
    LET rank == [m \in Mutexes |-> IF m = "guard" THEN 0
                                   ELSE IF m = "context" THEN 1 ELSE 2]
        wants(t) == IF sched.todo[t] /= << >> /\ Head(sched.todo[t])[1] = "lock"
                    THEN {Head(sched.todo[t])[2]}
                    ELSE {}
        held(t)  == {m \in Mutexes : sched.owner[m] = t}
    IN  /\ \A t \in LockTasks : \A m \in wants(t) :
              /\ \A h \in held(t) : rank[h] < rank[m]
              /\ held(t) /= {} => "guard" \in held(t)
        /\ \A S \in SUBSET LockTasks :
              S /= {} =>
                 \E t \in S : \A m \in wants(t) : sched.owner[m] \notin S
        /\ \A t \in LockTasks :
              sched.todo[t] = << >> => held(t) = {}

\* a handler holding guard and context, about to lock the state manager,
\* while the loop and the other handler wait for the guard and the weather
\* task holds the weather scalar
C36_Witness ==
    /\ sched.owner["guard"] = "conn1"
    /\ sched.owner["context"] = "conn1"
    /\ sched.todo["conn1"] /= << >>
    /\ Head(sched.todo["conn1"]) = <<"lock", "state_manager">>
    /\ sched.todo["loop"] /= << >>
    /\ Head(sched.todo["loop"]) = <<"lock", "guard">>
    /\ sched.todo["conn2"] /= << >>
    /\ Head(sched.todo["conn2"]) = <<"lock", "guard">>
    /\ sched.owner["weather_modifier"] = "weather"

=============================================================================
